---- MODULE Spec2Model ----
(***************************************************************************)
(* Model of the archive bot of src/worker.js (first variant, lines 1-658): *)
(* the record store (a CSV file behind the GitHub contents API), the       *)
(* deletion queue (deletions.json behind the same API), the upload and     *)
(* retrieval webhook handlers and the cron-triggered sweep.                *)
(*                                                                         *)
(* Text is a sequence of one-character strings, so that the CSV writer and *)
(* parser are computed character by character as the code does.            *)
(***************************************************************************)
EXTENDS Integers, Sequences, FiniteSets, TLC

VARIABLES
  csvFile,        \* archiveTG_data.csv in the remote store: [exists, content, size]
  up,             \* handleFileUpload invocations: task -> locals
  appended,       \* history: the records whose append was accepted, in store order
  deletionsFile,  \* deletions.json in the remote store: [exists, jobs]
  clock,          \* Date.now()
  delay,          \* env.DELETE_DELAY_MS as parsed by handleFileRequest
  rq,             \* handleFileRequest invocations: task -> locals
  sw,             \* handleScheduledDeletions invocations: task -> locals
  deleteCalls,    \* history: the jobs a sweep has issued a deleteMessage call for
  delivered,      \* history: outbound file messages whose send returned ok
  nextMsg,        \* next message_id the messaging platform hands out
  csv,            \* one append/read cycle of a single row (writer then parser)
  rd              \* one getFileContent call on the record store file

vars == <<csvFile, up, appended, deletionsFile, clock, delay, rq, sw,
          deleteCalls, delivered, nextMsg, csv, rd>>

storeVars == <<csvFile, up, appended>>
queueVars == <<deletionsFile, clock, delay, rq, sw, deleteCalls, delivered, nextMsg>>

-----------------------------------------------------------------------------
(* Bounds of the model *)

MaxNameLen == 3      \* longest display_name drawn for the single-row cycle
MaxAppends == 2      \* accepted appends per behaviour
MaxTime == 1         \* clock value from which no further retrieval starts
MaxMsgs == 2         \* outbound file messages per behaviour
MaxLines == 3        \* physical lines of the record store the lookup scans

-----------------------------------------------------------------------------
(* JavaScript string primitives over sequences of characters *)

Min(S) == CHOOSE x \in S : \A y \in S : x <= y
Max(S) == CHOOSE x \in S : \A y \in S : x >= y

IsSpace(c) == c \in {" ", "\t", "\n", "\r"}

\* index of the first character from i on that is not white space
RECURSIVE SkipSpaces(_, _)
SkipSpaces(s, i) ==
  IF i > Len(s) \/ ~IsSpace(s[i]) THEN i ELSE SkipSpaces(s, i + 1)

\* index of the last character up to j that is not white space
RECURSIVE SkipSpacesBack(_, _)
SkipSpacesBack(s, j) ==
  IF j < 1 \/ ~IsSpace(s[j]) THEN j ELSE SkipSpacesBack(s, j - 1)

\* String.prototype.trim
Trim(s) ==
  LET first == SkipSpaces(s, 1)
      last == SkipSpacesBack(s, Len(s))
  IN  IF first > last THEN <<>> ELSE SubSeq(s, first, last)

\* String.prototype.trimEnd
TrimEnd(s) == SubSeq(s, 1, SkipSpacesBack(s, Len(s)))

\* String.prototype.includes
Includes(s, sub) ==
  \E i \in 1..(Len(s) - Len(sub) + 1) : SubSeq(s, i, i + Len(sub) - 1) = sub

UpperChars == <<"A","B","C","D","E","F","G","H","I","J","K","L","M",
                "N","O","P","Q","R","S","T","U","V","W","X","Y","Z">>
LowerChars == <<"a","b","c","d","e","f","g","h","i","j","k","l","m",
                "n","o","p","q","r","s","t","u","v","w","x","y","z">>
LowerOf == [c \in {UpperChars[k] : k \in 1..26} |->
              LowerChars[CHOOSE k \in 1..26 : UpperChars[k] = c]]

\* String.prototype.toLowerCase
ToLowerCase(s) ==
  [i \in 1..Len(s) |-> IF s[i] \in DOMAIN LowerOf THEN LowerOf[s[i]] ELSE s[i]]

\* String.prototype.indexOf(ch, from), 1-based; 0 when there is none (-1 in JS)
RECURSIVE IndexOf(_, _, _)
IndexOf(s, ch, from) ==
  IF from > Len(s) THEN 0
  ELSE IF s[from] = ch THEN from
  ELSE IndexOf(s, ch, from + 1)

\* String.prototype.split('\n')
RECURSIVE SplitFrom(_, _)
SplitFrom(s, from) ==
  LET nl == IndexOf(s, "\n", from)
  IN  IF nl = 0 THEN <<SubSeq(s, from, Len(s))>>
      ELSE <<SubSeq(s, from, nl - 1)>> \o SplitFrom(s, nl + 1)

SplitLines(s) == SplitFrom(s, 1)

\* Array.prototype.join(',') as the template literals of appendToCSV use it
RECURSIVE JoinComma(_)
JoinComma(fields) ==
  IF Len(fields) = 0 THEN <<>>
  ELSE IF Len(fields) = 1 THEN fields[1]
  ELSE fields[1] \o <<",">> \o JoinComma(Tail(fields))

-----------------------------------------------------------------------------
(* String literals of the program *)

STR_numerical == <<"n","u","m","e","r","i","c","a","l">>
STR_file_id == <<"f","i","l","e","_","i","d">>
STR_file_name == <<"f","i","l","e","_","n","a","m","e">>
STR_file_type == <<"f","i","l","e","_","t","y","p","e">>
STR_numerical_file_id == STR_numerical \o <<"_">> \o STR_file_id
STR_Document == <<"D","o","c","u","m","e","n","t">>
STR_Photo == <<"P","h","o","t","o">>
STR_Video == <<"V","i","d","e","o">>
STR_Unknown == <<"U","n","k","n","o","w","n">>

\* the header row appendToCSV writes into a new file
HeaderLine ==
  JoinComma(<<STR_numerical_file_id, STR_file_id, STR_file_name, STR_file_type>>)

-----------------------------------------------------------------------------
(* StreamingGitHubCSVManager: the CSV writer and parser *)

\* str.replace(/"/g, '""')
RECURSIVE DoubleQuotes(_)
DoubleQuotes(s) ==
  IF s = <<>> THEN <<>>
  ELSE (IF Head(s) = "\"" THEN <<"\"", "\"">> ELSE <<Head(s)>>)
       \o DoubleQuotes(Tail(s))

escapeCSV_plainQuotes(field) ==
  IF \E i \in 1..Len(field) : field[i] \in {",", "\"", "\n"}
  THEN <<"\"">> \o field \o <<"\"">>
  ELSE field

escapeCSV(field) ==
  IF \E i \in 1..Len(field) : field[i] \in {",", "\"", "\n"}
  THEN <<"\"">> \o DoubleQuotes(field) \o <<"\"">>
  ELSE field

\* the while loop of parseCSVLine from position i on
RECURSIVE parseCSVLineFrom(_, _, _, _, _)
parseCSVLineFrom(line, i, result, current, inQuotes) ==
  IF i > Len(line) THEN Append(result, Trim(current))
  ELSE IF line[i] = "\""
       THEN IF inQuotes /\ i + 1 <= Len(line) /\ line[i + 1] = "\""
            THEN parseCSVLineFrom(line, i + 2, result, Append(current, "\""), inQuotes)
            ELSE parseCSVLineFrom(line, i + 1, result, current, ~inQuotes)
       ELSE IF line[i] = "," /\ ~inQuotes
            THEN parseCSVLineFrom(line, i + 1, Append(result, Trim(current)), <<>>, inQuotes)
            ELSE parseCSVLineFrom(line, i + 1, result, Append(current, line[i]), inQuotes)

parseCSVLine(line) == parseCSVLineFrom(line, 1, <<>>, <<>>, FALSE)

\* the data row of appendToCSV, without its line terminator
CsvRow(numericalFileId, fileId, fileName, fileType) ==
  JoinComma(<<numericalFileId, fileId, escapeCSV(fileName), fileType>>)

-----------------------------------------------------------------------------
(* The remote blob store (GitHub contents API), as the program relies on it *)

NoSha == <<>>                       \* sha: null, or no sha key in the PUT body
ShaOf(content) == <<content>>       \* the blob sha: a hash of the content, taken injective

\* a file of the repository: its bytes, one character each, and the size the API
\* reports for it
AbsentFile == [exists |-> FALSE, content |-> <<>>, size |-> 0]
FileOf(content) == [exists |-> TRUE, content |-> content, size |-> Len(content)]
CurrentSha(file) == IF file.exists THEN ShaOf(file.content) ELSE NoSha

\* PUT /contents/<path>: a create carries no sha and needs the path to be absent,
\* a replace carries the sha of the version it replaces
StoreAccepts(file, sha) == sha = CurrentSha(file)

-----------------------------------------------------------------------------
(* StreamingGitHubCSVManager: reads *)

GITHUB_SIZE_LIMIT == 1048576

\* the characters with codes 32 to 95 and 97 to 126, in the order of their codes
AsciiUpper ==
  <<" ", "!", "\"", "#", "$", "%", "&", "'", "(", ")", "*", "+", ",", "-", ".", "/",
    "0", "1", "2", "3", "4", "5", "6", "7", "8", "9", ":", ";", "<", "=", ">", "?",
    "@", "A", "B", "C", "D", "E", "F", "G", "H", "I", "J", "K", "L", "M", "N", "O",
    "P", "Q", "R", "S", "T", "U", "V", "W", "X", "Y", "Z", "[", "\\", "]", "^", "_">>
AsciiLower ==
  <<"a", "b", "c", "d", "e", "f", "g", "h", "i", "j", "k", "l", "m", "n", "o",
    "p", "q", "r", "s", "t", "u", "v", "w", "x", "y", "z", "{", "|", "}", "~">>

\* the character of a byte and the byte of a character
CharOf ==
  [b \in {9, 10, 13} \cup 32..95 \cup 97..126 |->
     IF b = 9 THEN "\t" ELSE IF b = 10 THEN "\n" ELSE IF b = 13 THEN "\r"
     ELSE IF b <= 95 THEN AsciiUpper[b - 31] ELSE AsciiLower[b - 96]]
CodeOf ==
  [c \in {CharOf[b] : b \in DOMAIN CharOf} |->
     CHOOSE b \in DOMAIN CharOf : CharOf[b] = c]

\* the base64 alphabet
Base64Chars ==
  <<"A", "B", "C", "D", "E", "F", "G", "H", "I", "J", "K", "L", "M", "N", "O", "P",
    "Q", "R", "S", "T", "U", "V", "W", "X", "Y", "Z", "a", "b", "c", "d", "e", "f",
    "g", "h", "i", "j", "k", "l", "m", "n", "o", "p", "q", "r", "s", "t", "u", "v",
    "w", "x", "y", "z", "0", "1", "2", "3", "4", "5", "6", "7", "8", "9", "+", "/">>
Base64Value ==
  [c \in {Base64Chars[k] : k \in 1..64} \cup {"="} |->
     IF c = "=" THEN 0 ELSE (CHOOSE k \in 1..64 : Base64Chars[k] = c) - 1]

Pow64 == <<1, 64, 4096, 262144>>
Pow256 == <<1, 256, 65536>>
Base64LineLength == 60

\* the "content" of an API response: the base64 of the bytes, broken into lines of
\* Base64LineLength characters
Base64Of(bytes) ==
  LET n == Len(bytes)
      byte(i) == IF i <= n THEN CodeOf[bytes[i]] ELSE 0
      group(k) == byte(3 * k - 2) * 65536 + byte(3 * k - 1) * 256 + byte(3 * k)
      raw == [j \in 1..(4 * ((n + 2) \div 3)) |->
                LET k == ((j - 1) \div 4) + 1
                    p == (j - 1) % 4
                IN  IF 3 * (k - 1) + p > n THEN "="
                    ELSE Base64Chars[((group(k) \div Pow64[4 - p]) % 64) + 1]]
      lines == (Len(raw) + Base64LineLength - 1) \div Base64LineLength
  IN  <<>> \o [i \in 1..(Len(raw) + lines) |->
                 IF (i % (Base64LineLength + 1)) = 0 \/ i = Len(raw) + lines THEN "\n"
                 ELSE raw[i - (i \div (Base64LineLength + 1))]]

\* atob: white space is dropped, then every four characters give three bytes, less
\* the padding
atob(encoded) ==
  LET data == SelectSeq(encoded, LAMBDA c : ~IsSpace(c))
      n == Len(data)
      padding == IF n >= 2 /\ data[n - 1] = "=" THEN 2
                 ELSE IF n >= 1 /\ data[n] = "=" THEN 1 ELSE 0
      group(k) == Base64Value[data[4 * k - 3]] * 262144
                    + Base64Value[data[4 * k - 2]] * 4096
                    + Base64Value[data[4 * k - 1]] * 64
                    + Base64Value[data[4 * k]]
  IN  <<>> \o [i \in 1..(((n \div 4) * 3) - padding) |->
         CharOf[(group(((i - 1) \div 3) + 1) \div Pow256[3 - ((i - 1) % 3)]) % 256]]

\* GET /contents/<path>: the content is left out of the answer for a file above
\* GITHUB_SIZE_LIMIT
PathEndpoint(file) ==
  [sha |-> ShaOf(file.content), size |-> file.size,
   content |-> IF file.size > GITHUB_SIZE_LIMIT THEN <<>> ELSE Base64Of(file.content)]

\* GET /git/blobs/<sha>: the blob of that sha, whatever its size
BlobEndpoint(file, sha) ==
  [found |-> file.exists /\ sha = ShaOf(file.content),
   encoding |-> "base64", content |-> Base64Of(file.content)]

NoContent == [ok |-> FALSE, text |-> <<>>, via |-> "none"]

\* getFileInfo: a failed or non-ok probe reports the file as not existing
getFileInfo(file, fetchOk) ==
  IF fetchOk /\ file.exists
  THEN [exists |-> TRUE, sha |-> PathEndpoint(file).sha, size |-> PathEndpoint(file).size,
        isLarge |-> PathEndpoint(file).size > GITHUB_SIZE_LIMIT]
  ELSE [exists |-> FALSE, sha |-> NoSha, size |-> 0, isLarge |-> FALSE]

\* downloadLargeFile: a second probe, then the blob of the sha it reports; null
\* when a fetch fails
downloadLargeFile(file, fetchOk) ==
  LET fileInfo == getFileInfo(file, fetchOk)
      blobData == BlobEndpoint(file, fileInfo.sha)
  IN  IF ~fileInfo.exists \/ ~blobData.found THEN NoContent
      ELSE [ok |-> TRUE, via |-> "blob",
            text |-> IF blobData.encoding = "base64" THEN atob(blobData.content)
                     ELSE blobData.content]

\* line 234 with the large-file branch dropped
ReadsBlob_never(fileInfo) == FALSE

\* line 234: if (fileInfo.isLarge)
ReadsBlob(fileInfo) == fileInfo.isLarge

\* getFileContent: null when the probe or the content fetch fails; via names the
\* endpoint whose content is returned
getFileContent(file, fetchOk) ==
  LET fileInfo == getFileInfo(file, fetchOk) IN
  IF ~fileInfo.exists THEN NoContent
  ELSE IF ReadsBlob(fileInfo) THEN downloadLargeFile(file, fetchOk)
  ELSE [ok |-> TRUE, via |-> "path", text |-> atob(PathEndpoint(file).content)]

\* JavaScript's !content: null and the empty string are both falsy
Falsy(content) == ~content.ok \/ content.text = <<>>

NotFound == [found |-> FALSE, file_id |-> <<>>, file_name |-> <<>>, file_type |-> <<>>]

\* the for loop of findFileByIdStreaming from line i on
RECURSIVE findLoop(_, _, _, _)
findLoop(lines, i, headerSkipped, numericalFileId) ==
  IF i > Len(lines) THEN NotFound
  ELSE LET line == Trim(lines[i]) IN
       IF line = <<>> THEN findLoop(lines, i + 1, headerSkipped, numericalFileId)
       ELSE IF ~headerSkipped /\ Includes(ToLowerCase(line), STR_numerical)
       THEN findLoop(lines, i + 1, TRUE, numericalFileId)
       ELSE LET parsedLine == parseCSVLine(line) IN
            IF Len(parsedLine) >= 4 /\ parsedLine[1] = numericalFileId
            THEN [found |-> TRUE,
                  file_id |-> parsedLine[2],
                  file_name |-> IF parsedLine[3] = <<>> THEN STR_Unknown ELSE parsedLine[3],
                  file_type |-> IF parsedLine[4] = <<>> THEN STR_Unknown ELSE parsedLine[4]]
            ELSE findLoop(lines, i + 1, headerSkipped, numericalFileId)

findFileByIdStreaming(content, numericalFileId) ==
  IF Falsy(content) THEN NotFound
  ELSE findLoop(SplitLines(content.text), 1, FALSE, numericalFileId)

\* lines 263-269 of that loop on a content no row of which matches: the indices
\* of the lines that get past both continue statements and reach parseCSVLine
RECURSIVE scanLoop(_, _, _)
scanLoop(lines, i, headerSkipped) ==
  IF i > Len(lines) THEN <<>>
  ELSE LET line == Trim(lines[i]) IN
       IF line = <<>> THEN scanLoop(lines, i + 1, headerSkipped)
       ELSE IF ~headerSkipped /\ Includes(ToLowerCase(line), STR_numerical)
       THEN scanLoop(lines, i + 1, TRUE)
       ELSE <<i>> \o scanLoop(lines, i + 1, headerSkipped)

\* the while loop of getFileCount: the non-blank lines that end in a newline
RECURSIVE countLoop(_, _, _)
countLoop(text, pos, lineCount) ==
  IF pos > Len(text) THEN [pos |-> pos, lineCount |-> lineCount]
  ELSE LET nextNewline == IndexOf(text, "\n", pos) IN
       IF nextNewline = 0 THEN [pos |-> pos, lineCount |-> lineCount]
       ELSE countLoop(text, nextNewline + 1,
                      IF Trim(SubSeq(text, pos, nextNewline - 1)) # <<>>
                      THEN lineCount + 1 ELSE lineCount)

getFileCount(content) ==
  IF Falsy(content) THEN 0
  ELSE LET text == content.text
           firstNewline == IndexOf(text, "\n", 1)
           firstLine == ToLowerCase(SubSeq(text, 1, firstNewline - 1))
           hasHeader == /\ firstNewline # 0
                        /\ (Includes(firstLine, STR_numerical) \/ Includes(firstLine, STR_file_id))
           loop == countLoop(text, 1, 0)
           lineCount == IF Trim(SubSeq(text, loop.pos, Len(text))) # <<>>
                        THEN loop.lineCount + 1 ELSE loop.lineCount
       IN  Max({0, lineCount - (IF hasHeader THEN 1 ELSE 0)})

NoDuplicate == [hit |-> FALSE, numericalId |-> <<>>,
                file_name |-> <<>>, file_id |-> <<>>, file_type |-> <<>>]

\* the comparison of checkForDuplicate: name OR external id
DuplicateMatch(parsedLine, fileName, fileId) ==
  parsedLine[3] = fileName \/ parsedLine[2] = fileId

\* the for loop of checkForDuplicate from line i on
RECURSIVE duplicateLoop(_, _, _, _)
duplicateLoop(lines, i, fileName, fileId) ==
  IF i > Len(lines) THEN NoDuplicate
  ELSE IF Trim(lines[i]) = <<>> THEN duplicateLoop(lines, i + 1, fileName, fileId)
  ELSE LET parsedLine == parseCSVLine(lines[i]) IN
       IF Len(parsedLine) >= 4 /\ DuplicateMatch(parsedLine, fileName, fileId)
       THEN [hit |-> TRUE, numericalId |-> parsedLine[1],
             file_name |-> parsedLine[3], file_id |-> parsedLine[2],
             file_type |-> parsedLine[4]]
       ELSE duplicateLoop(lines, i + 1, fileName, fileId)

checkForDuplicate(content, fileName, fileId) ==
  IF Falsy(content) THEN NoDuplicate
  ELSE duplicateLoop(SplitLines(content.text), 1, fileName, fileId)

-----------------------------------------------------------------------------
(* StreamingGitHubCSVManager.appendToCSV: the content it writes *)

\* the two-line file written when the probe reports no file
NewFileContent(numericalFileId, fileId, fileName, fileType) ==
  HeaderLine \o <<"\n">> \o CsvRow(numericalFileId, fileId, fileName, fileType) \o <<"\n">>

\* lines 378-379 with the new row written over the content that was read
UpdatedContent_fresh(currentContent, numericalFileId, fileId, fileName, fileType) ==
  HeaderLine \o <<"\n">> \o CsvRow(numericalFileId, fileId, fileName, fileType) \o <<"\n">>

\* currentContent.trimEnd() + '\n' + newLine
UpdatedContent(currentContent, numericalFileId, fileId, fileName, fileType) ==
  TrimEnd(currentContent) \o <<"\n">>
    \o CsvRow(numericalFileId, fileId, fileName, fileType) \o <<"\n">>

-----------------------------------------------------------------------------
(* handleFileUpload: one webhook invocation per task, one step per await that
   reads or writes the record store *)

UploadTasks == {"u1", "u2"}

FileIds == {<<"f", "1">>, <<"f", "2">>, <<"f", "3">>, <<"f", "4">>}
NoName == <<>>                      \* message.document.file_name missing

IdLength == 16
\* generateNumericalFileId: a string of IdLength random decimal digits
GenIds == {[i \in 1..IdLength |-> d] : d \in {"1", "2"}}

\* the uploads the webhook receives
UploadMessages ==
  { [kind |-> "document", file_id |-> <<"f", "1">>, file_name |-> <<"a">>],
    [kind |-> "document", file_id |-> <<"f", "2">>, file_name |-> <<" ", "a">>],
    [kind |-> "document", file_id |-> <<"f", "3">>, file_name |-> <<"b", ",", "\"">>],
    [kind |-> "document", file_id |-> <<"f", "4">>, file_name |-> <<"c", "\n", "d">>],
    [kind |-> "photo", file_id |-> <<"f", "1">>, file_name |-> NoName] }

\* lines 521-533: the record fields taken from the message
UploadFields(msg) ==
  IF msg.kind = "document"
  THEN [fileId |-> msg.file_id,
        fileName |-> IF msg.file_name = NoName THEN STR_Document ELSE msg.file_name,
        fileType |-> STR_Document]
  ELSE IF msg.kind = "photo"
  THEN [fileId |-> msg.file_id, fileName |-> STR_Photo, fileType |-> STR_Photo]
  ELSE [fileId |-> msg.file_id,
        fileName |-> IF msg.file_name = NoName THEN STR_Video ELSE msg.file_name,
        fileType |-> STR_Video]

IdleUpload ==
  [pc |-> "idle", fileId |-> <<>>, fileName |-> <<>>, fileType |-> <<>>,
   existing |-> NoDuplicate, numId |-> <<>>, sha |-> NoSha, content |-> <<>>,
   total |-> 0, status |-> "none", reply |-> "none", response |-> "none"]

\* line 653: the handler returned, the webhook answers 'OK'
UploadDone(reply) == [IdleUpload EXCEPT !.pc = "done", !.reply = reply, !.response = "200"]

\* lines 539-557 without the catch: the handler carries on as after a success
UploadThrown_swallowed(status) == [IdleUpload EXCEPT !.pc = "count", !.status = status]

\* an exception inside the try of handleFileUpload reaches its catch, line 554
UploadThrown(status) == [IdleUpload EXCEPT !.pc = "catch", !.status = status]

UploadsInFlight == {u \in UploadTasks : up[u].pc \notin {"idle", "done"}}

UploadStart(u, msg) ==
  /\ up[u].pc \in {"idle", "done"}
  /\ Len(appended) + Cardinality(UploadsInFlight) < MaxAppends
  /\ LET f == UploadFields(msg) IN
     up' = [up EXCEPT ![u] = [IdleUpload EXCEPT !.pc = "check", !.fileId = f.fileId,
                                               !.fileName = f.fileName,
                                               !.fileType = f.fileType]]
  /\ UNCHANGED <<csvFile, appended, queueVars, csv, rd>>

\* lines 540-548 without the test of line 544: the record is added whether or not
\* the duplicate check found one
UploadCheck_appendsAnyway(u, fetchOk, sendOk, id) ==
  /\ up[u].pc = "check"
  /\ up' = [up EXCEPT ![u] =
              IF ~sendOk THEN UploadThrown("none")
              ELSE [@ EXCEPT !.pc = "info", !.numId = id]]
  /\ UNCHANGED <<csvFile, appended, queueVars, csv, rd>>

\* lines 540-548: the status messages (sendMessage throws when the Bot API cannot be
\* reached), the duplicate check, then the id of the new record
UploadCheck(u, fetchOk, sendOk, id) ==
  /\ up[u].pc = "check"
  /\ LET existingFile == checkForDuplicate(getFileContent(csvFile, fetchOk),
                                           up[u].fileName, up[u].fileId)
     IN  up' = [up EXCEPT ![u] =
                  IF ~sendOk
                  THEN UploadThrown("none")
                  ELSE IF existingFile.hit
                  THEN [UploadDone("exists") EXCEPT !.existing = existingFile]
                  ELSE [@ EXCEPT !.pc = "info", !.numId = id]]
  /\ UNCHANGED <<csvFile, appended, queueVars, csv, rd>>

\* appendToCSV, lines 371-375: the probe decides between create and update
UploadInfo(u, fetchOk) ==
  /\ up[u].pc = "info"
  /\ LET fileInfo == getFileInfo(csvFile, fetchOk) IN
     up' = [up EXCEPT ![u] =
              IF ~fileInfo.exists
              THEN [@ EXCEPT !.pc = "create",
                             !.content = NewFileContent(up[u].numId, up[u].fileId,
                                                  up[u].fileName, up[u].fileType)]
              ELSE [@ EXCEPT !.pc = "read", !.sha = fileInfo.sha]]
  /\ UNCHANGED <<csvFile, appended, queueVars, csv, rd>>

\* appendToCSV, lines 376-379: the content the new row is added to
UploadRead(u, fetchOk) ==
  /\ up[u].pc = "read"
  /\ LET currentContent == getFileContent(csvFile, fetchOk) IN
     up' = [up EXCEPT ![u] =
              IF Falsy(currentContent)
              THEN UploadThrown("unread")
              ELSE [@ EXCEPT !.pc = "update",
                             !.content = UpdatedContent(currentContent.text, up[u].numId,
                                    up[u].fileId, up[u].fileName, up[u].fileType)]]
  /\ UNCHANGED <<csvFile, appended, queueVars, csv, rd>>

\* the sha the PUT body carries: none in createFile, fileInfo.sha of the probe in
\* updateFile
PutSha_refetched(u) == CurrentSha(csvFile)
PutSha(u) == IF up[u].pc = "create" THEN NoSha ELSE up[u].sha

\* response.status of a store that takes a PUT without sha as create-or-replace
PutStatus_createOverwrites(u, transportOk) ==
  IF ~transportOk THEN "unavailable"
  ELSE IF PutSha(u) = NoSha \/ StoreAccepts(csvFile, PutSha(u)) THEN "ok" ELSE "conflict"

\* response.status of the PUT
PutStatus(u, transportOk) ==
  IF ~transportOk THEN "unavailable"
  ELSE IF StoreAccepts(csvFile, PutSha(u)) THEN "ok" ELSE "conflict"

\* the PUT of createFile and updateFile; unless response.ok it throws to the catch of
\* handleFileUpload, lines 554-557
UploadPut(u, transportOk) ==
  /\ up[u].pc \in {"create", "update"}
  /\ IF PutStatus(u, transportOk) = "ok"
     THEN /\ csvFile' = FileOf(up[u].content)
          /\ appended' = Append(appended, [numId |-> up[u].numId, fileId |-> up[u].fileId,
                                           fileName |-> up[u].fileName,
                                           fileType |-> up[u].fileType])
          /\ up' = [up EXCEPT ![u] = [@ EXCEPT !.pc = "count", !.content = <<>>,
                                               !.sha = NoSha, !.status = "ok"]]
     ELSE /\ up' = [up EXCEPT ![u] = UploadThrown(PutStatus(u, transportOk))]
          /\ UNCHANGED <<csvFile, appended>>
  /\ UNCHANGED <<queueVars, csv, rd>>

UploadCreate(u, transportOk) ==
  /\ up[u].pc = "create"
  /\ UploadPut(u, transportOk)

UploadUpdate(u, transportOk) ==
  /\ up[u].pc = "update"
  /\ UploadPut(u, transportOk)

\* lines 550-552: the total reported to the user
UploadCount(u, fetchOk, sendOk) ==
  /\ up[u].pc = "count"
  /\ up' = [up EXCEPT ![u] =
              IF ~sendOk
              THEN UploadThrown("ok")
              ELSE [UploadDone("added") EXCEPT
                        !.total = getFileCount(getFileContent(csvFile, fetchOk)),
                        !.status = "ok"]]
  /\ UNCHANGED <<csvFile, appended, queueVars, csv, rd>>

\* lines 554-557 and 652-657: the catch tells the user; when that message cannot be
\* sent either, the exception reaches the catch of handleTelegramWebhook
UploadCatch(u, sendOk) ==
  /\ up[u].pc = "catch"
  /\ up' = [up EXCEPT ![u] =
              IF sendOk
              THEN [UploadDone("error") EXCEPT !.status = up[u].status]
              ELSE [IdleUpload EXCEPT !.pc = "done", !.status = up[u].status,
                                     !.response = "500"]]
  /\ UNCHANGED <<csvFile, appended, queueVars, csv, rd>>

\* the steps of a started upload; answers: the outcomes a fetch may have (TRUE: the
\* remote end answers), ids: the ids generateNumericalFileId may return
UploadRun(u, answers, ids) ==
    \/ \E fetchOk \in answers, sendOk \in answers, id \in ids :
          UploadCheck(u, fetchOk, sendOk, id)
    \/ \E fetchOk \in answers : UploadInfo(u, fetchOk)
    \/ \E fetchOk \in answers : UploadRead(u, fetchOk)
    \/ \E transportOk \in answers : UploadCreate(u, transportOk)
    \/ \E transportOk \in answers : UploadUpdate(u, transportOk)
    \/ \E fetchOk \in answers, sendOk \in answers : UploadCount(u, fetchOk, sendOk)
    \/ \E sendOk \in answers : UploadCatch(u, sendOk)

UploadStep(answers) ==
  \E u \in UploadTasks :
    \/ \E msg \in UploadMessages : UploadStart(u, msg)
    \/ UploadRun(u, answers, GenIds)

-----------------------------------------------------------------------------
(* GitHubDeletionManager: deletions.json holds the JSON list of the jobs; a job
   {chatId, messageId, deleteAt} holds only integers and short strings, which
   JSON.stringify and JSON.parse carry over unchanged, so the file content is
   kept as the list itself *)

\* getDeletions whose 404 answer is taken for a version of the file
getDeletions_tokenOf404(file, fetchOk) ==
  IF fetchOk /\ file.exists
  THEN [deletions |-> file.content, sha |-> ShaOf(file.content)]
  ELSE [deletions |-> <<>>, sha |-> ShaOf(<<>>)]

\* getDeletions: 404 and every failure give the empty list and no sha
getDeletions(file, fetchOk) ==
  IF fetchOk /\ file.exists
  THEN [deletions |-> file.content, sha |-> ShaOf(file.content)]
  ELSE [deletions |-> <<>>, sha |-> NoSha]

\* updateDeletions storing the list even when the PUT is answered with an error
updateDeletions_torn(file, deletions, sha, transportOk) ==
  [ok |-> transportOk /\ StoreAccepts(file, sha), file |-> FileOf(deletions)]

\* updateDeletions against a store that takes every write that reaches it
updateDeletions_lastWriterWins(file, deletions, sha, transportOk) ==
  IF transportOk
  THEN [ok |-> TRUE, file |-> FileOf(deletions)]
  ELSE [ok |-> FALSE, file |-> file]

\* updateDeletions against a store that takes a PUT without sha as create-or-replace
updateDeletions_createOverwrites(file, deletions, sha, transportOk) ==
  IF transportOk /\ (sha = NoSha \/ StoreAccepts(file, sha))
  THEN [ok |-> TRUE, file |-> FileOf(deletions)]
  ELSE [ok |-> FALSE, file |-> file]

\* updateDeletions: the PUT replaces the whole list; it throws unless response.ok
updateDeletions(file, deletions, sha, transportOk) ==
  IF transportOk /\ StoreAccepts(file, sha)
  THEN [ok |-> TRUE, file |-> FileOf(deletions)]
  ELSE [ok |-> FALSE, file |-> file]

-----------------------------------------------------------------------------
(* handleScheduledDeletions: the sweep *)

SweepTasks == {"s1", "s2"}

\* line 51 with > for >=: a job is not yet due at its own deleteAt
IsDue_strict(now, item) == now > item.deleteAt

\* line 51 with the operands swapped
IsDue_swapped(now, item) == item.deleteAt >= now

\* line 51 with the test dropped: every job is taken as due
IsDue_always(now, item) == TRUE

\* line 51 with = for >=: a job is due only in the millisecond of its deleteAt
IsDue_exactly(now, item) == now = item.deleteAt

\* line 51: the test that makes a job due
IsDue(now, item) == now >= item.deleteAt

\* lines 47-56: the for loop from item i on
RECURSIVE partitionLoop(_, _, _, _, _)
partitionLoop(deletions, i, now, dueForDeletion, stillPending) ==
  IF i > Len(deletions)
  THEN [dueForDeletion |-> dueForDeletion, stillPending |-> stillPending]
  ELSE IF IsDue(now, deletions[i])
       THEN partitionLoop(deletions, i + 1, now,
                          Append(dueForDeletion, deletions[i]), stillPending)
       ELSE partitionLoop(deletions, i + 1, now,
                          dueForDeletion, Append(stillPending, deletions[i]))

\* no sweep ran before at the same reference time
NoPrev == [result |-> "none", seen |-> <<>>, failed |-> {}]

\* the locals of a sweep, and for the properties the queue as it was when the
\* sweep read it (seen) and the outcome of the sweep before it at the same now (prev:
\* its result, what it read, the jobs whose delete call failed)
IdleSweep ==
  [pc |-> "idle", now |-> 0, deletions |-> <<>>, sha |-> NoSha,
   dueForDeletion |-> <<>>, stillPending |-> <<>>, outstanding |-> {},
   failed |-> {}, result |-> "none", seen |-> <<>>, prev |-> NoPrev]

\* line 35: the cron trigger fires and the sweep takes its reference time
SweepStart(s) ==
  /\ sw[s].pc \in {"idle", "done"}
  /\ sw' = [sw EXCEPT ![s] =
              [IdleSweep EXCEPT !.pc = "load", !.now = clock,
                 !.prev = IF sw[s].pc = "done" /\ sw[s].now = clock
                          THEN [result |-> sw[s].result, seen |-> sw[s].seen,
                                failed |-> {sw[s].dueForDeletion[i] : i \in sw[s].failed}]
                          ELSE NoPrev]]
  /\ UNCHANGED <<deletionsFile, clock, delay, rq, deleteCalls, delivered, nextMsg,
               storeVars, csv, rd>>

\* lines 37-68: read the queue, split it, issue one deleteMessage per due job
SweepLoad(s, fetchOk) ==
  /\ sw[s].pc = "load"
  /\ LET got == getDeletions(deletionsFile, fetchOk)
         parts == partitionLoop(got.deletions, 1, sw[s].now, <<>>, <<>>)
     IN  IF Len(got.deletions) = 0
         THEN /\ sw' = [sw EXCEPT ![s] =
                          [IdleSweep EXCEPT !.pc = "done", !.result = "empty",
                                            !.now = sw[s].now, !.prev = sw[s].prev,
                                            !.seen = deletionsFile.content]]
              /\ UNCHANGED deleteCalls
         ELSE IF Len(parts.dueForDeletion) = 0
         THEN /\ sw' = [sw EXCEPT ![s] =
                          [IdleSweep EXCEPT !.pc = "done", !.result = "none_due",
                                            !.now = sw[s].now, !.prev = sw[s].prev,
                                            !.seen = deletionsFile.content]]
              /\ UNCHANGED deleteCalls
         ELSE /\ sw' = [sw EXCEPT ![s] =
                          [@ EXCEPT !.pc = "deleting",
                                    !.deletions = got.deletions, !.sha = got.sha,
                                    !.dueForDeletion = parts.dueForDeletion,
                                    !.stillPending = parts.stillPending,
                                    !.outstanding = 1..Len(parts.dueForDeletion),
                                    !.seen = deletionsFile.content,
                                    !.prev = NoPrev]]
              /\ deleteCalls' = deleteCalls \cup
                   {parts.dueForDeletion[i] : i \in 1..Len(parts.dueForDeletion)}
  /\ UNCHANGED <<deletionsFile, clock, delay, rq, delivered, nextMsg, storeVars, csv, rd>>

\* lines 488-501 without the try/catch: a failed fetch rejects the promise
deleteMessage_uncaught(fetchOk) == fetchOk

\* TelegramBot.deleteMessage, lines 488-501: TRUE when the promise resolves; the
\* catch logs a failed fetch, so it resolves whatever the fetch did
deleteMessage(fetchOk) == TRUE

\* one of the deleteMessage calls of line 66 completes; were its promise rejected,
\* Promise.all (line 69) would reject and end the sweep before the writeback
SweepDeleteDone(s, i, fetchOk) ==
  /\ sw[s].pc = "deleting"
  /\ i \in sw[s].outstanding
  /\ sw' = [sw EXCEPT ![s] =
              IF deleteMessage(fetchOk)
              THEN [@ EXCEPT !.outstanding = @ \ {i},
                             !.failed = IF fetchOk THEN @ ELSE @ \cup {i}]
              ELSE [IdleSweep EXCEPT !.pc = "done", !.result = "aborted"]]
  /\ UNCHANGED <<deletionsFile, clock, delay, rq, deleteCalls, delivered, nextMsg,
               storeVars, csv, rd>>

\* line 73 with the list that was read in place of stillPending
WritebackList_all(s) == sw[s].deletions

\* line 73 with the jobs whose deleteMessage failed kept for a later sweep
WritebackList_retryFailed(s) ==
  sw[s].stillPending \o
    SelectSeq(sw[s].dueForDeletion,
              LAMBDA job : \E i \in sw[s].failed : sw[s].dueForDeletion[i] = job)

\* line 73: the list the sweep writes back
WritebackList(s) == sw[s].stillPending

\* line 69 without the await: the sweep goes on while delete calls are in flight
AllComplete_notAwaited(s) == TRUE

\* line 69: await Promise.all(deletionPromises) returns once every promise is settled
AllComplete(s) == sw[s].outstanding = {}

\* lines 69-77: after Promise.all, write the pending jobs back; a failure is logged
SweepWrite(s, transportOk) ==
  /\ sw[s].pc = "deleting"
  /\ AllComplete(s)
  /\ LET put == updateDeletions(deletionsFile, WritebackList(s), sw[s].sha, transportOk)
     IN  /\ deletionsFile' = put.file
         /\ sw' = [sw EXCEPT ![s] =
                     [IdleSweep EXCEPT !.pc = "done", !.now = sw[s].now,
                               !.dueForDeletion = sw[s].dueForDeletion,
                               !.stillPending = sw[s].stillPending,
                               !.failed = sw[s].failed,
                               !.seen = sw[s].seen,
                               !.result = IF put.ok THEN "written" ELSE "write_failed"]]
  /\ UNCHANGED <<clock, delay, rq, deleteCalls, delivered, nextMsg, storeVars, csv, rd>>

SweepStep(tasks, answers) ==
  \E s \in tasks :
    \/ SweepStart(s)
    \/ \E fetchOk \in answers : SweepLoad(s, fetchOk)
    \/ \E i \in 1..MaxMsgs, fetchOk \in BOOLEAN : SweepDeleteDone(s, i, fetchOk)
    \/ \E transportOk \in answers : SweepWrite(s, transportOk)

-----------------------------------------------------------------------------
(* handleFileRequest: the retrieval *)

RequestTasks == {"r1", "r2"}

\* deleteDelayMs == parseInt(env.DELETE_DELAY_MS, 10) || 5400000, with
\* DELETE_DELAY_MS configured as "1": the clock counts milliseconds
DELETE_DELAY == 1
Chats == {"c1"}

\* /^\d+$/.test
IsDigits(s) ==
  /\ Len(s) > 0
  /\ \A i \in 1..Len(s) : s[i] \in {"0","1","2","3","4","5","6","7","8","9"}

\* the token after the command: an archived id, an unknown id, no id, not a number
ArchivedArgs == GenIds
RequestArgs == ArchivedArgs \cup {[i \in 1..IdLength |-> "3"], <<>>, <<"x">>}
RequestCommands == {"/start", "/get"}
RequestTexts == [command : RequestCommands, arg : RequestArgs]
\* the retrievals of archived files: /get <id of the document>, /start <id of the photo>
ArchivedTexts ==
  { [command |-> "/get", arg |-> [i \in 1..IdLength |-> "1"]],
    [command |-> "/start", arg |-> [i \in 1..IdLength |-> "2"]] }

\* lines 603-607 with the list replaced instead of extended
PushJob_overwrite(deletions, chatId, messageId, deleteAt) ==
  <<[chatId |-> chatId, messageId |-> messageId, deleteAt |-> deleteAt]>>

\* lines 603-607: the job pushed onto the list read from the queue
PushJob(deletions, chatId, messageId, deleteAt) ==
  Append(deletions, [chatId |-> chatId, messageId |-> messageId, deleteAt |-> deleteAt])

IdleRequest ==
  [pc |-> "idle", chatId |-> "", numId |-> <<>>, messageId |-> 0, deletions |-> <<>>,
   sha |-> NoSha, deleteAt |-> 0, status |-> "none", reply |-> "none",
   response |-> "none"]

\* line 653: the handler returned, the webhook answers 'OK'
RequestDone(reply) ==
  [IdleRequest EXCEPT !.pc = "done", !.reply = reply, !.response = "200"]

\* lines 633-658 without the catch answering 500: 'OK' is returned all the same
RequestFailed_ok == [IdleRequest EXCEPT !.pc = "done", !.response = "200"]

\* lines 652-657: an exception no handler caught, the webhook answers 500
RequestFailed == [IdleRequest EXCEPT !.pc = "done", !.response = "500"]

\* an exception inside the try of handleFileRequest reaches its catch, line 612
RequestThrown == [IdleRequest EXCEPT !.pc = "catch"]

RequestsInFlight == {r \in RequestTasks : rq[r].pc \notin {"idle", "done"}}

\* lines 561-583: the id is the token after the command, then the lookup in the
\* record store; the welcome and the invalid-command message are sent outside the
\* try, the other messages inside it
RequestStart(r, chatId, command, arg, fetchOk, sendOk) ==
  /\ rq[r].pc \in {"idle", "done"}
  /\ clock < MaxTime
  /\ rq' = [rq EXCEPT ![r] =
              IF ~IsDigits(arg)
              THEN IF sendOk
                   THEN RequestDone(IF command = "/start" THEN "welcome" ELSE "invalid")
                   ELSE RequestFailed
              ELSE IF ~sendOk
              THEN RequestThrown
              ELSE IF ~findFileByIdStreaming(getFileContent(csvFile, fetchOk), arg).found
              THEN [RequestDone("not_found") EXCEPT !.numId = arg]
              ELSE [IdleRequest EXCEPT !.pc = "send", !.chatId = chatId, !.numId = arg]]
  /\ UNCHANGED <<deletionsFile, clock, delay, sw, deleteCalls, delivered, nextMsg,
               storeVars, csv, rd>>

\* lines 589-596: sendPhoto or sendDocument, whose message the platform numbers;
\* fetchOk: the Bot API was reached (else fetch throws), sendOk: its answer's ok
RequestSend(r, sendOk, fetchOk) ==
  /\ rq[r].pc = "send"
  /\ (fetchOk /\ sendOk) => nextMsg <= MaxMsgs
  /\ rq' = [rq EXCEPT ![r] =
              IF ~fetchOk
              THEN RequestThrown
              ELSE IF ~sendOk
              THEN RequestDone("not_sent")
              ELSE [IdleRequest EXCEPT !.pc = "load", !.chatId = rq[r].chatId,
                                       !.messageId = nextMsg]]
  /\ nextMsg' = IF fetchOk /\ sendOk THEN nextMsg + 1 ELSE nextMsg
  /\ delivered' = IF fetchOk /\ sendOk THEN delivered \cup {nextMsg} ELSE delivered
  /\ UNCHANGED <<deletionsFile, clock, delay, sw, deleteCalls, storeVars, csv, rd>>

\* lines 597-601: the schedule reads the queue
RequestLoad(r, fetchOk) ==
  /\ rq[r].pc = "load"
  /\ LET got == getDeletions(deletionsFile, fetchOk)
     IN  rq' = [rq EXCEPT ![r] = [@ EXCEPT !.pc = "push", !.deletions = got.deletions,
                                           !.sha = got.sha]]
  /\ UNCHANGED <<deletionsFile, clock, delay, sw, deleteCalls, delivered, nextMsg,
               storeVars, csv, rd>>

\* line 602 without the delay
DeleteAt_now(now, deleteDelayMs) == now

\* line 602: Date.now() + deleteDelayMs
DeleteAt(now, deleteDelayMs) == now + deleteDelayMs

\* lines 602-607: deleteAt = Date.now() + deleteDelayMs, and the push
RequestPush(r) ==
  /\ rq[r].pc = "push"
  /\ rq' = [rq EXCEPT ![r] =
              [@ EXCEPT !.pc = "put", !.deleteAt = DeleteAt(clock, delay),
                        !.deletions = PushJob(@, rq[r].chatId, rq[r].messageId,
                                              DeleteAt(clock, delay))]]
  /\ UNCHANGED <<deletionsFile, clock, delay, sw, deleteCalls, delivered, nextMsg,
               storeVars, csv, rd>>

\* line 608: the PUT, which throws to the catch of line 612 unless it is accepted;
\* the error carries the status of the response, lines 148-151
RequestPut(r, transportOk) ==
  /\ rq[r].pc = "put"
  /\ LET put == updateDeletions(deletionsFile, rq[r].deletions, rq[r].sha, transportOk)
     IN  /\ deletionsFile' = put.file
         /\ rq' = [rq EXCEPT ![r] =
                     IF put.ok THEN RequestDone("scheduled")
                     ELSE [RequestThrown EXCEPT
                             !.status = IF transportOk THEN "conflict"
                                        ELSE "unavailable"]]
  /\ UNCHANGED <<clock, delay, sw, deleteCalls, delivered, nextMsg, storeVars, csv, rd>>

\* lines 612-615 and 652-657: the catch tells the user; when that message cannot be
\* sent either, the exception reaches the catch of handleTelegramWebhook
RequestCatch(r, sendOk) ==
  /\ rq[r].pc = "catch"
  /\ rq' = [rq EXCEPT ![r] = IF sendOk THEN RequestDone("error") ELSE RequestFailed]
  /\ UNCHANGED <<deletionsFile, clock, delay, sw, deleteCalls, delivered, nextMsg,
               storeVars, csv, rd>>

\* the steps of a started retrieval; answers: the outcomes a fetch to the remote
\* store may have, sends: the outcomes a fetch to the Bot API may have (TRUE: it is
\* reached)
RequestRun(r, answers, sends) ==
    \/ \E sendOk \in BOOLEAN, fetchOk \in sends : RequestSend(r, sendOk, fetchOk)
    \/ \E fetchOk \in answers : RequestLoad(r, fetchOk)
    \/ RequestPush(r)
    \/ \E transportOk \in answers : RequestPut(r, transportOk)
    \/ \E sendOk \in sends : RequestCatch(r, sendOk)

RequestStep(texts, answers, sends) ==
  \E r \in RequestTasks :
    \/ \E chatId \in Chats, text \in texts, fetchOk \in answers, sendOk \in sends :
         RequestStart(r, chatId, text.command, text.arg, fetchOk, sendOk)
    \/ RequestRun(r, answers, sends)

\* Date.now() advances; past MaxTime no retrieval starts, and the clock runs on
\* only far enough for every job scheduled by then to become due
Tick ==
  /\ clock < MaxTime + DELETE_DELAY
  /\ clock >= MaxTime => RequestsInFlight = {}
  /\ clock' = clock + 1
  /\ UNCHANGED <<deletionsFile, delay, rq, sw, deleteCalls, delivered, nextMsg,
               storeVars, csv, rd>>

-----------------------------------------------------------------------------
(* handleTelegramWebhook: the dispatch of an update to its handler *)

STR_start == <<"/","s","t","a","r","t">>
STR_get == <<"/","g","e","t">>
STR_debug == <<"/","d","e","b","u","g">>

\* String.prototype.startsWith
StartsWith(s, prefix) ==
  Len(s) >= Len(prefix) /\ SubSeq(s, 1, Len(prefix)) = prefix

\* String.prototype.split(' ')
RECURSIVE SplitSpaceFrom(_, _)
SplitSpaceFrom(s, from) ==
  LET sp == IndexOf(s, " ", from)
  IN  IF sp = 0 THEN <<SubSeq(s, from, Len(s))>>
      ELSE <<SubSeq(s, from, sp - 1)>> \o SplitSpaceFrom(s, sp + 1)

\* lines 563-564: the token after the command, '' when there is none
NumericalFileIdOf(text) ==
  LET parts == SplitSpaceFrom(text, 1)
  IN  IF Len(parts) > 1 THEN parts[2] ELSE <<>>

\* a message without document, photo or video
NoMedia == [kind |-> "none", file_id |-> <<>>, file_name |-> NoName]

\* the update bodies the webhook receives: one without a message (an edited message,
\* a callback query), an upload, retrievals of an archived and of an unknown id,
\* commands without a usable id, /debug, other text, a message with neither text
\* nor media, and a command that is not at the start of the text
BotUpdates ==
  { [message |-> FALSE, media |-> NoMedia, text |-> <<>>],
    [message |-> TRUE, text |-> <<>>,
     media |-> [kind |-> "document", file_id |-> <<"f", "1">>, file_name |-> <<"a">>]],
    [message |-> TRUE, media |-> NoMedia,
     text |-> STR_get \o <<" ">> \o [i \in 1..IdLength |-> "1"]],
    [message |-> TRUE, media |-> NoMedia,
     text |-> STR_get \o <<" ">> \o [i \in 1..IdLength |-> "3"]],
    [message |-> TRUE, media |-> NoMedia, text |-> STR_start],
    [message |-> TRUE, media |-> NoMedia, text |-> STR_get \o <<" ", "x">>],
    [message |-> TRUE, media |-> NoMedia, text |-> STR_debug],
    [message |-> TRUE, media |-> NoMedia, text |-> <<"h", "i">>],
    [message |-> TRUE, media |-> NoMedia, text |-> <<>>],
    [message |-> TRUE, media |-> NoMedia, text |-> <<" ">> \o STR_get] }

\* lines 642-650 with every text message handed to handleFileRequest
Dispatch_anyText(update) ==
  IF ~update.message THEN "none"
  ELSE IF update.media # NoMedia THEN "upload"
  ELSE IF update.text # <<>> THEN "request"
  ELSE "none"

\* lines 642-650 with the test of the text made before the test of the media
Dispatch_commandFirst(update) ==
  IF ~update.message THEN "none"
  ELSE IF StartsWith(update.text, STR_start) \/ StartsWith(update.text, STR_get)
  THEN "request"
  ELSE IF update.media # NoMedia THEN "upload"
  ELSE IF StartsWith(update.text, STR_debug) THEN "debug"
  ELSE "none"

\* lines 636-650: the handler an update is handed to
Dispatch(update) ==
  IF ~update.message THEN "none"
  ELSE IF update.media # NoMedia THEN "upload"
  ELSE IF update.text # <<>>
  THEN IF StartsWith(update.text, STR_start) \/ StartsWith(update.text, STR_get)
       THEN "request"
       ELSE IF StartsWith(update.text, STR_debug) THEN "debug" ELSE "none"
  ELSE "none"

\* the invocations of the fetch handler the runtime has in progress at one time;
\* an invocation runs handleFileUpload as w.u or any other handler as w.r
WebhookSlots == {[u |-> "u1", r |-> "r1"], [u |-> "u2", r |-> "r2"]}

\* no invocation occupies slot w
SlotFree(w) == up[w.u].pc = "idle" /\ rq[w.r].pc = "idle"

\* line 643: handleFileUpload
WebhookUpload(w, update) ==
  /\ Dispatch(update) = "upload"
  /\ SlotFree(w)
  /\ UploadStart(w.u, update.media)

\* line 646: handleFileRequest
WebhookRequest(w, chatId, update, fetchOk, sendOk) ==
  /\ Dispatch(update) = "request"
  /\ SlotFree(w)
  /\ RequestStart(w.r, chatId,
                  IF StartsWith(update.text, STR_start) THEN "/start" ELSE "/get",
                  NumericalFileIdOf(update.text), fetchOk, sendOk)

\* lines 648, 618-631: handleDebug reads the record store and sends the status; a
\* failed send is caught by its own catch, which sends again
WebhookDebug(w, update, sendOk) ==
  /\ Dispatch(update) = "debug"
  /\ SlotFree(w)
  /\ rq' = [rq EXCEPT ![w.r] = IF sendOk THEN RequestDone("debug") ELSE RequestThrown]
  /\ UNCHANGED <<deletionsFile, clock, delay, sw, deleteCalls, delivered, nextMsg,
               storeVars, csv, rd>>

\* lines 636, 651: no handler is called, the webhook answers 'OK'
WebhookIgnore(w, update) ==
  /\ Dispatch(update) = "none"
  /\ SlotFree(w)
  /\ rq' = [rq EXCEPT ![w.r] = RequestDone("none")]
  /\ UNCHANGED <<deletionsFile, clock, delay, sw, deleteCalls, delivered, nextMsg,
               storeVars, csv, rd>>

\* line 635: request.json() throws on a body that is not JSON
WebhookBadBody(w) ==
  /\ SlotFree(w)
  /\ rq' = [rq EXCEPT ![w.r] = RequestFailed]
  /\ UNCHANGED <<deletionsFile, clock, delay, sw, deleteCalls, delivered, nextMsg,
               storeVars, csv, rd>>

\* lines 635-651: the invocation in slot w receives update
WebhookUpdate(w, update) ==
  \/ WebhookUpload(w, update)
  \/ \E chatId \in Chats, fetchOk \in BOOLEAN, sendOk \in BOOLEAN :
       WebhookRequest(w, chatId, update, fetchOk, sendOk)
  \/ \E sendOk \in BOOLEAN : WebhookDebug(w, update, sendOk)
  \/ WebhookIgnore(w, update)

\* lines 636, 651, 654: the response is returned and the invocation is over
WebhookRespond(w) ==
  /\ up[w.u].pc = "done" \/ rq[w.r].pc = "done"
  /\ up' = [up EXCEPT ![w.u] = IdleUpload]
  /\ rq' = [rq EXCEPT ![w.r] = IdleRequest]
  /\ UNCHANGED <<deletionsFile, clock, delay, sw, deleteCalls, delivered, nextMsg,
               csvFile, appended, csv, rd>>

-----------------------------------------------------------------------------
(* One append/read cycle of a single row: the row appendToCSV writes for a
   display name, then parseCSVLine on that row *)

CsvAlphabet == {"a", ",", "\"", " ", "\n"}
CsvNames == UNION {[1..n -> CsvAlphabet] : n \in 1..MaxNameLen}

CsvOff == [pc |-> "off", name |-> <<>>, text |-> <<>>, fields |-> <<>>]

\* line 378: the row of the template literal, before its line terminator
CsvWrite ==
  /\ csv.pc = "new"
  /\ \E id \in GenIds, f \in FileIds :
       csv' = [csv EXCEPT !.pc = "written",
                          !.text = CsvRow(id, f, csv.name, STR_Document)]
  /\ UNCHANGED <<storeVars, queueVars, rd>>

CsvRead ==
  /\ csv.pc = "written"
  /\ csv' = [csv EXCEPT !.pc = "read", !.fields = parseCSVLine(csv.text)]
  /\ UNCHANGED <<storeVars, queueVars, rd>>

-----------------------------------------------------------------------------
(* One getFileContent call on a record store file of any reported size *)

ReadOff == [pc |-> "off", content |-> NoContent]

\* lines 229-252: const content = await this.getFileContent()
ReadContent(fetchOk) ==
  /\ rd.pc = "new"
  /\ rd' = [pc |-> "done", content |-> getFileContent(csvFile, fetchOk)]
  /\ UNCHANGED <<storeVars, queueVars, csv>>

\* lines 254-256: findFileByIdStreaming on the content getFileContent returns
FindById(numericalFileId, fetchOk) ==
  /\ rd.pc = "new"
  /\ LET content == getFileContent(csvFile, fetchOk) IN
       rd' = [pc |-> "found", content |-> content, id |-> numericalFileId,
              fileData |-> findFileByIdStreaming(content, numericalFileId)]
  /\ UNCHANGED <<storeVars, queueVars, csv>>

\* lines 315-339: getFileCount on the content getFileContent returns
CountFiles(fetchOk) ==
  /\ rd.pc = "new"
  /\ LET content == getFileContent(csvFile, fetchOk) IN
       rd' = [pc |-> "counted", content |-> content, count |-> getFileCount(content)]
  /\ UNCHANGED <<storeVars, queueVars, csv>>

-----------------------------------------------------------------------------
(* Initial states and specifications *)

InitStore ==
  /\ csvFile = AbsentFile
  /\ up = [u \in UploadTasks |-> IdleUpload]
  /\ appended = <<>>

QueueOff ==
  /\ deletionsFile = AbsentFile
  /\ clock = 0
  /\ delay = DELETE_DELAY
  /\ rq = [r \in RequestTasks |-> IdleRequest]
  /\ sw = [s \in SweepTasks |-> IdleSweep]
  /\ deleteCalls = {}
  /\ delivered = {}
  /\ nextMsg = 1

\* the record store under concurrent uploads
InitS == InitStore /\ QueueOff /\ csv = CsvOff /\ rd = ReadOff
NextS == UploadStep(BOOLEAN)
SpecStore == InitS /\ [][NextS]_vars

\* the same with a remote store whose transport never fails
NextSR == UploadStep({TRUE})
SpecReliableStore == InitS /\ [][NextSR]_vars

\* the CSV writer and parser on one row
InitCSV ==
  /\ InitStore /\ QueueOff
  /\ \E n \in CsvNames : csv = [CsvOff EXCEPT !.pc = "new", !.name = n]
  /\ rd = ReadOff
NextCSV == CsvWrite \/ CsvRead
SpecCSV == InitCSV /\ [][NextCSV]_vars

\* getFileContent on one file: its bytes are a short text or the record store of
\* two records, and the size the API reports for it is their number, or stands for
\* a file of GITHUB_SIZE_LIMIT bytes or of one byte more
ReadTexts == CsvNames \cup {UpdatedContent(
           NewFileContent([i \in 1..IdLength |-> "1"], <<"f", "1">>, <<"a">>, STR_Document),
           [i \in 1..IdLength |-> "2"], <<"f", "2">>, STR_Photo, STR_Photo)}
ReadFiles ==
  {[FileOf(text) EXCEPT !.size = size] :
     text \in ReadTexts, size \in {0, GITHUB_SIZE_LIMIT, GITHUB_SIZE_LIMIT + 1}}
InitRead ==
  /\ \E file \in ReadFiles :
       csvFile = IF file.size = 0 THEN FileOf(file.content) ELSE file
  /\ up = [u \in UploadTasks |-> IdleUpload]
  /\ appended = <<>>
  /\ QueueOff
  /\ csv = CsvOff
  /\ rd = [ReadOff EXCEPT !.pc = "new"]
NextRead == \E fetchOk \in BOOLEAN : ReadContent(fetchOk)
SpecRead == InitRead /\ [][NextRead]_vars

\* the lookup and the count on one record store file of up to MaxLines lines:
\* the header row appendToCSV writes, a blank line, a record, and a record whose
\* display name is the word Numerical; the last line ends in a line break or not
ScanTexts ==
  LET row1 == CsvRow([i \in 1..IdLength |-> "1"], <<"f", "1">>, <<"a">>, STR_Photo)
      row2 == CsvRow([i \in 1..IdLength |-> "2"], <<"f", "2">>,
                     <<"N">> \o Tail(STR_numerical), STR_Photo)
      RECURSIVE join(_)
      join(lines) == IF Len(lines) = 1 THEN lines[1]
                     ELSE lines[1] \o <<"\n">> \o join(Tail(lines))
  IN  {join(lines) \o end :
         lines \in UNION {[1..n -> {HeaderLine, <<>>, row1, row2}] : n \in 1..MaxLines},
         end \in {<<>>, <<"\n">>}}
InitScan ==
  /\ \E text \in ScanTexts : csvFile = FileOf(text)
  /\ up = [u \in UploadTasks |-> IdleUpload]
  /\ appended = <<>>
  /\ QueueOff
  /\ csv = CsvOff
  /\ rd = [ReadOff EXCEPT !.pc = "new"]
NextScan ==
  \/ \E id \in GenIds, fetchOk \in BOOLEAN : FindById(id, fetchOk)
  \/ \E fetchOk \in BOOLEAN : CountFiles(fetchOk)
SpecScan == InitScan /\ [][NextScan]_vars

\* the record store the retrievals look up: two accepted appends
ArchivedStore ==
  FileOf(UpdatedContent(
           NewFileContent([i \in 1..IdLength |-> "1"], <<"f", "1">>, <<"a">>, STR_Document),
           [i \in 1..IdLength |-> "2"], <<"f", "2">>, STR_Photo, STR_Photo))

\* the deletion queue under concurrent retrievals and one sweep at a time
InitQ ==
  /\ csvFile = ArchivedStore
  /\ up = [u \in UploadTasks |-> IdleUpload]
  /\ appended = <<>>
  /\ deletionsFile = AbsentFile
  /\ clock = 0
  /\ delay = DELETE_DELAY
  /\ rq = [r \in RequestTasks |-> IdleRequest]
  /\ sw = [s \in SweepTasks |-> IdleSweep]
  /\ deleteCalls = {}
  /\ delivered = {}
  /\ nextMsg = 1
  /\ csv = CsvOff
  /\ rd = ReadOff
QueueSweeps == {"s1"}
NextQ ==
  RequestStep(ArchivedTexts, BOOLEAN, {TRUE}) \/ SweepStep(QueueSweeps, BOOLEAN) \/ Tick
SpecQueue == InitQ /\ [][NextQ]_vars

\* the same with a remote store whose transport never fails: a read returns the
\* file, a write is refused only for its version token
NextQR ==
  RequestStep(ArchivedTexts, {TRUE}, {TRUE}) \/ SweepStep(QueueSweeps, {TRUE}) \/ Tick
SpecReliableQueue == InitQ /\ [][NextQR]_vars

\* the cron trigger fires again and again, every started sweep and handler runs to
\* its end, and time passes
FairQ ==
  /\ WF_vars(Tick)
  /\ \A s \in QueueSweeps :
       /\ WF_vars(SweepStart(s))
       /\ WF_vars(SweepLoad(s, TRUE))
       /\ WF_vars(\E i \in 1..MaxMsgs, fetchOk \in BOOLEAN : SweepDeleteDone(s, i, fetchOk))
       /\ WF_vars(SweepWrite(s, TRUE))
  /\ \A r \in RequestTasks :
       /\ WF_vars(\E sendOk \in BOOLEAN : RequestSend(r, sendOk, TRUE))
       /\ WF_vars(RequestLoad(r, TRUE))
       /\ WF_vars(RequestPush(r))
       /\ WF_vars(RequestPut(r, TRUE))
       /\ WF_vars(RequestCatch(r, TRUE))
FairSpecReliableQueue == SpecReliableQueue /\ FairQ

\* sweeps that overlap, a cron invocation starting while the one before it is still
\* running, on a queue that holds the jobs of three messages sent earlier: one due
\* from DELETE_DELAY on, one from MaxTime + DELETE_DELAY on, one not due within
\* MaxTime
SentJobs ==
  <<[chatId |-> "c1", messageId |-> 1, deleteAt |-> DELETE_DELAY],
    [chatId |-> "c1", messageId |-> 2, deleteAt |-> MaxTime + DELETE_DELAY],
    [chatId |-> "c1", messageId |-> 3, deleteAt |-> MaxTime + DELETE_DELAY + 1]>>
InitW ==
  /\ csvFile = ArchivedStore
  /\ up = [u \in UploadTasks |-> IdleUpload]
  /\ appended = <<>>
  /\ deletionsFile = FileOf(SentJobs)
  /\ clock = 0
  /\ delay = DELETE_DELAY
  /\ rq = [r \in RequestTasks |-> IdleRequest]
  /\ sw = [s \in SweepTasks |-> IdleSweep]
  /\ deleteCalls = {}
  /\ delivered = {SentJobs[i].messageId : i \in 1..Len(SentJobs)}
  /\ nextMsg = Len(SentJobs) + 1
  /\ csv = CsvOff
  /\ rd = ReadOff
NextW == SweepStep(SweepTasks, BOOLEAN) \/ Tick
SpecSweeps == InitW /\ [][NextW]_vars

\* one invocation at a time on a repository that holds both files: the record store
\* of two records and a queue with the job of a message sent earlier, not yet due
\* within MaxTime
QueuedJob == [chatId |-> "c1", messageId |-> 0, deleteAt |-> MaxTime + DELETE_DELAY + 1]
FreshIds == {[i \in 1..IdLength |-> "3"]}
LiveSlots == {[u |-> "u1", r |-> "r1"]}
InitE ==
  /\ csvFile = ArchivedStore
  /\ up = [u \in UploadTasks |-> IdleUpload]
  /\ appended = <<>>
  /\ deletionsFile = FileOf(<<QueuedJob>>)
  /\ clock = 0
  /\ delay = DELETE_DELAY
  /\ rq = [r \in RequestTasks |-> IdleRequest]
  /\ sw = [s \in SweepTasks |-> IdleSweep]
  /\ deleteCalls = {}
  /\ delivered = {}
  /\ nextMsg = 1
  /\ csv = CsvOff
  /\ rd = ReadOff
NextE ==
  \/ \E w \in LiveSlots, msg \in UploadMessages : SlotFree(w) /\ UploadStart(w.u, msg)
  \/ \E w \in LiveSlots, chatId \in Chats, text \in ArchivedTexts, fetchOk \in BOOLEAN :
       SlotFree(w) /\ RequestStart(w.r, chatId, text.command, text.arg, fetchOk, TRUE)
  \/ \E w \in LiveSlots : UploadRun(w.u, BOOLEAN, FreshIds)
  \/ \E w \in LiveSlots : RequestRun(w.r, BOOLEAN, {TRUE})
  \/ \E w \in LiveSlots : WebhookRespond(w)
  \/ Tick
SpecExisting == InitE /\ [][NextE]_vars

\* the webhook: concurrent invocations of the fetch handler on both store files as
\* time passes, starting with no file in the repository
BotIds == {[i \in 1..IdLength |-> "1"]}
NextB ==
  \/ \E w \in WebhookSlots, update \in BotUpdates : WebhookUpdate(w, update)
  \/ \E w \in WebhookSlots : WebhookBadBody(w)
  \/ \E w \in WebhookSlots : UploadRun(w.u, BOOLEAN, BotIds)
  \/ \E w \in WebhookSlots : RequestRun(w.r, BOOLEAN, BOOLEAN)
  \/ \E w \in WebhookSlots : WebhookRespond(w)
  \/ Tick
SpecBot == InitS /\ [][NextB]_vars

\* one invocation at a time on the updates above and on updates that carry both
\* media and text: a photo and a video sent with a retrieval command; and a get
\* command followed by two spaces
DispatchUpdates ==
  BotUpdates \cup
    { [message |-> TRUE, text |-> STR_get \o <<" ">> \o [i \in 1..IdLength |-> "1"],
       media |-> [kind |-> "photo", file_id |-> <<"f", "2">>, file_name |-> NoName]],
      [message |-> TRUE, text |-> STR_start,
       media |-> [kind |-> "video", file_id |-> <<"f", "3">>, file_name |-> NoName]],
      [message |-> TRUE, media |-> NoMedia,
       text |-> STR_get \o <<" ", " ">> \o [i \in 1..IdLength |-> "1"]] }
NextD ==
  \/ \E w \in LiveSlots, update \in DispatchUpdates : WebhookUpdate(w, update)
  \/ \E w \in LiveSlots : UploadRun(w.u, BOOLEAN, BotIds)
  \/ \E w \in LiveSlots : RequestRun(w.r, BOOLEAN, BOOLEAN)
  \/ \E w \in LiveSlots : WebhookRespond(w)
SpecDispatch == InitS /\ [][NextD]_vars

-----------------------------------------------------------------------------
(* Properties of the deletion queue *)

Range(seq) == {seq[i] : i \in 1..Len(seq)}

\* the step in which retrieval r issues the PUT of its schedule
SchedulePutStep(r) ==
  /\ rq[r].pc = "put"
  /\ rq'[r].pc # "put"

\* the step in which sweep s writes the pending jobs back and the store accepts
SweepWroteBack(s) ==
  /\ sw[s].pc = "deleting"
  /\ sw'[s].pc = "done"
  /\ sw'[s].result = "written"

\* C1: a sweep whose writeback succeeds leaves the persisted queue equal to exactly
\* the jobs it read with deleteAt > now, in their original order: every job with
\* deleteAt <= now is gone and no job that is not due is removed.
C1_SweepKeepsExactlyNotDue ==
  [][\A s \in SweepTasks :
       SweepWroteBack(s) =>
         LET NotDue(job) == job.deleteAt > sw[s].now IN
         /\ deletionsFile'.exists
         /\ deletionsFile'.content = SelectSeq(sw[s].deletions, NotDue)
         /\ deletionsFile'.content = SelectSeq(deletionsFile.content, NotDue)]_vars

\* a sweep has written back after removing a due job and keeping one that was not due
C1_Witness ==
  \E s \in SweepTasks :
    /\ sw[s].pc = "done" /\ sw[s].result = "written"
    /\ sw[s].dueForDeletion # <<>>
    /\ sw[s].stillPending # <<>>
    /\ deletionsFile.content = sw[s].stillPending

\* C2: every deleteMessage call a sweep issues targets a job whose deleteAt is <= the
\* reference time that sweep captured, which is never ahead of the clock: no
\* scheduled message is deleted by a sweep before its due time.
C2_NoDeleteBeforeDue ==
  /\ \A job \in deleteCalls : job.deleteAt <= clock
  /\ \A s \in SweepTasks :
       sw[s].pc = "deleting" =>
         /\ sw[s].now <= clock
         /\ \A i \in 1..Len(sw[s].dueForDeletion) :
              /\ sw[s].dueForDeletion[i].deleteAt <= sw[s].now
              /\ sw[s].dueForDeletion[i] \in deleteCalls

\* a sweep has issued its delete calls while sparing a job that is not yet due
C2_Witness ==
  \E s \in SweepTasks :
    /\ sw[s].pc = "deleting"
    /\ sw[s].dueForDeletion # <<>>
    /\ sw[s].stillPending # <<>>

\* C3: every outbound message a retrieval delivered is eventually the target of a
\* delete-message call of some sweep, when the sweep keeps being triggered and
\* every started handler runs to its end.
C3_DeliveredEventuallyDeleted ==
  \A m \in 1..MaxMsgs :
    (m \in delivered) ~> (\E job \in deleteCalls : job.messageId = m)

\* C4: a job in the persisted queue stays there, unaltered, in every step except
\* the successful writeback of a sweep whose reference time is >= the job's deleteAt.
C4_JobStaysUntilDueSweep ==
  [][\A job \in Range(deletionsFile.content) :
       \/ job \in Range(deletionsFile'.content)
       \/ \E s \in SweepTasks : SweepWroteBack(s) /\ sw[s].now >= job.deleteAt]_vars

\* a job is in the persisted queue after a schedule was accepted, a sweep's writeback
\* was refused and a schedule was refused
C4_Witness ==
  /\ deletionsFile.content # <<>>
  /\ \E s \in SweepTasks : sw[s].result = "write_failed"
  /\ \E r \in RequestTasks : rq[r].reply = "error"
  /\ \E r \in RequestTasks : rq[r].reply = "scheduled"

\* the writeback of sweep s has been attempted
WritebackAttempted(s) ==
  sw[s].pc = "done" /\ sw[s].result \in {"written", "write_failed"}

\* C11: a sweep with a due job issues a delete call for every due job it read and
\* then attempts the writeback, whatever each delete call's outcome: it leaves the
\* deleting phase only through the writeback, and it does leave it.
C11_DeleteFailuresIsolated ==
  /\ [][\A s \in SweepTasks :
          (sw[s].pc = "load" /\ sw'[s].pc = "deleting")
            => \A i \in 1..Len(sw'[s].deletions) :
                 sw'[s].deletions[i].deleteAt <= sw[s].now
                   => sw'[s].deletions[i] \in deleteCalls']_vars
  /\ [][\A s \in SweepTasks :
          (sw[s].pc = "deleting" /\ sw'[s].pc # "deleting")
            => sw[s].outstanding = {} /\ WritebackAttempted(s)']_vars
  /\ \A s \in SweepTasks : (sw[s].pc = "deleting") ~> WritebackAttempted(s)

\* a sweep with two due jobs wrote back after one of its delete calls had failed
C11_Witness ==
  \E s \in SweepTasks :
    /\ WritebackAttempted(s)
    /\ Len(sw[s].dueForDeletion) = 2
    /\ Cardinality(sw[s].failed) = 1

\* C12: a sweep that reads the queue when it holds no job with deleteAt <= now (it
\* is empty, or every job is still pending) ends there: it issues no delete call and
\* no write, and the persisted queue and so its version token are unchanged.
C12_NothingDueNoWrite ==
  [][\A s \in SweepTasks :
       (/\ sw[s].pc = "load" /\ sw'[s].pc # "load"
        /\ \A job \in Range(deletionsFile.content) : job.deleteAt > sw[s].now)
         => /\ sw'[s].pc = "done"
            /\ sw'[s].result \in {"empty", "none_due"}
            /\ deleteCalls' = deleteCalls
            /\ deletionsFile' = deletionsFile
            /\ CurrentSha(deletionsFile') = CurrentSha(deletionsFile)]_vars

\* a sweep ended without a write on a queue that holds only jobs not yet due
C12_Witness ==
  \E s \in SweepTasks :
    /\ sw[s].pc = "done" /\ sw[s].result = "none_due"
    /\ deletionsFile.content # <<>>
    /\ \A job \in Range(deletionsFile.content) : job.deleteAt > clock

\* sweep s, started at the reference time of the sweep before it, reads the queue
\* when it holds no job that the sweep before it did not find there: no schedule
\* was accepted in between
SecondSweepReads(s) ==
  /\ sw[s].pc = "load" /\ sw'[s].pc # "load"
  /\ sw[s].prev.result # "none"
  /\ Range(deletionsFile.content) \subseteq Range(sw[s].prev.seen)

\* sweep s ends at its read: no delete call, no write, the queue unchanged
SweepIsNoOp(s) ==
  /\ sw'[s].pc = "done"
  /\ deleteCalls' = deleteCalls
  /\ deletionsFile' = deletionsFile

WritebackStep(s) ==
  /\ sw[s].pc = "deleting" /\ sw[s].outstanding = {}
  /\ sw'[s].pc # "deleting"

C16_FailedDeleteRemovedLikeSucceeded ==
  /\ [][\A s \in SweepTasks :
          SweepWroteBack(s) =>
            \A i \in sw[s].failed :
              sw[s].dueForDeletion[i] \notin Range(deletionsFile'.content)]_vars
  /\ [][\A job \in deleteCalls :
          job \notin Range(deletionsFile.content)
            => job \notin Range(deletionsFile'.content)]_vars
  /\ [][\A s \in SweepTasks :
          (sw[s].pc = "load" /\ sw'[s].pc = "deleting")
            => Range(sw'[s].dueForDeletion) \subseteq Range(deletionsFile.content)]_vars

\* a later sweep has run to its end after a writeback removed a job whose delete
\* call had failed: the job is in no list the later sweep read
C16_Witness ==
  \E s \in SweepTasks :
    /\ sw[s].pc = "done" /\ sw[s].result \in {"empty", "none_due"}
    /\ sw[s].prev.result = "written"
    /\ \E job \in sw[s].prev.failed :
         /\ job \in deleteCalls
         /\ job \in Range(sw[s].prev.seen)
         /\ job \notin Range(sw[s].seen)

\* C23: within a sweep the writeback comes after the all-complete join. The step
\* that ends the delete phase of a sweep with a writeback, accepted or refused, is
\* taken only when no delete call of that sweep is outstanding, every due job having
\* had its call issued; and as long as one is outstanding the queue file is changed
\* only by the schedule of a retrieval or by the writeback of another sweep.
C23_WritebackAfterAllDeletes ==
  /\ [][\A s \in SweepTasks :
          (sw[s].pc = "deleting" /\ sw'[s].pc = "done"
             /\ sw'[s].result \in {"written", "write_failed"})
            => /\ sw[s].outstanding = {}
               /\ Range(sw[s].dueForDeletion) \subseteq deleteCalls]_vars
  /\ [][\A s \in SweepTasks :
          (sw[s].pc = "deleting" /\ sw[s].outstanding # {}
             /\ deletionsFile' # deletionsFile)
            => \/ \E r \in RequestTasks : SchedulePutStep(r)
               \/ \E t \in SweepTasks \ {s} : WritebackStep(t)]_vars

\* a sweep with two due jobs has written back after both delete calls completed,
\* one of them failed
C23_Witness ==
  \E s \in SweepTasks :
    /\ sw[s].pc = "done" /\ sw[s].result = "written"
    /\ Len(sw[s].dueForDeletion) = 2
    /\ sw[s].outstanding = {}
    /\ Cardinality(sw[s].failed) = 1
    /\ Range(sw[s].dueForDeletion) \subseteq deleteCalls

\* sweep s and the schedule of retrieval r have read the same version of the queue
\* file and neither has issued its write
Overlap(s, r) ==
  /\ sw[s].pc = "deleting"
  /\ rq[r].pc \in {"push", "put"}
  /\ sw[s].sha = rq[r].sha

\* C24: a sweep and a schedule that overlap on one version of the queue file. Once
\* the write of either is accepted the token the other holds is no longer the
\* current one, and a write with a token that is not current is refused and changes
\* nothing: at most one of the two writes succeeds. An accepted schedule leaves the
\* list it read plus its job in the file, an accepted writeback leaves every job
\* that was not due, and a job leaves the file only by the accepted writeback of a
\* sweep for which it was due.
C24_SweepScheduleOverlap ==
  /\ [][\A s \in SweepTasks, r \in RequestTasks :
          (Overlap(s, r) /\ SweepWroteBack(s))
            => /\ rq'[r].sha # CurrentSha(deletionsFile')
               /\ deletionsFile'.content = sw[s].stillPending]_vars
  /\ [][\A s \in SweepTasks, r \in RequestTasks :
          (Overlap(s, r) /\ SchedulePutStep(r) /\ rq'[r].pc = "done")
            => /\ sw'[s].sha # CurrentSha(deletionsFile')
               /\ deletionsFile'.content = rq[r].deletions
               /\ Range(sw[s].deletions) \subseteq Range(deletionsFile'.content)
               /\ Len(deletionsFile'.content) = Len(sw[s].deletions) + 1]_vars
  /\ [][\A r \in RequestTasks :
          (SchedulePutStep(r) /\ rq[r].sha # CurrentSha(deletionsFile))
            => rq'[r].pc = "catch" /\ deletionsFile' = deletionsFile]_vars
  /\ [][\A s \in SweepTasks :
          (WritebackStep(s) /\ sw[s].sha # CurrentSha(deletionsFile))
            => sw'[s].result = "write_failed" /\ deletionsFile' = deletionsFile]_vars
  /\ [][\A job \in Range(deletionsFile.content) \ Range(deletionsFile'.content) :
          \E s \in SweepTasks :
            SweepWroteBack(s) /\ IsDue(sw[s].now, job) /\ job \in deleteCalls]_vars

\* the schedule wrote first: the queue is the list the sweep read plus the new job,
\* and the writeback of the sweep was refused
C24_Witness ==
  \E s \in SweepTasks, r \in RequestTasks :
    /\ sw[s].pc = "done" /\ sw[s].result = "write_failed"
    /\ sw[s].seen # <<>>
    /\ rq[r].pc = "done" /\ rq[r].reply = "scheduled"
    /\ Len(deletionsFile.content) = Len(sw[s].seen) + 1
    /\ SubSeq(deletionsFile.content, 1, Len(sw[s].seen)) = sw[s].seen

\* the step in which sweep s reads the queue file and gets its content
SweepReads(s) == sw[s].pc = "load" /\ SweepLoad(s, TRUE)

\* every sweep that reads the queue issues a delete call for each job of it that is
\* due at its reference time
ReadingSweepAttemptsDue ==
  [][\A s \in SweepTasks :
       SweepReads(s) =>
         \A job \in Range(deletionsFile.content) :
           sw[s].now >= job.deleteAt
             => job \in deleteCalls' /\ job \in Range(sw'[s].dueForDeletion)]_vars

\* C27 as stated: after a sweep whose writeback failed every job it treated as due
\* is still in the persisted queue, and each sweep that reads the queue attempts
\* every due job of it.
C27_FailedWritebackKeepsDueJobs ==
  /\ [][\A s \in SweepTasks :
          (WritebackStep(s) /\ sw'[s].result = "write_failed")
            => Range(sw[s].dueForDeletion) \subseteq Range(deletionsFile'.content)]_vars
  /\ ReadingSweepAttemptsDue

\* C27: a failed writeback changes nothing in the persisted queue. The jobs the
\* sweep treated as due are still there when its token is still the current one;
\* one that is gone was removed by the accepted writeback of an overlapping sweep,
\* which had issued its own delete call for it. A job leaves the queue only that
\* way, and each sweep that reads the queue attempts every due job of it, so the
\* same job can get more than one delete call but is never passed over.
C27_DueJobsRetriedUntilWrittenOff ==
  /\ [][\A s \in SweepTasks :
          (WritebackStep(s) /\ sw'[s].result = "write_failed")
            => /\ deletionsFile' = deletionsFile
               /\ sw[s].sha = CurrentSha(deletionsFile)
                    => Range(sw[s].dueForDeletion) \subseteq Range(deletionsFile'.content)
               /\ \A job \in Range(sw[s].dueForDeletion) \ Range(deletionsFile'.content) :
                    /\ sw[s].sha # CurrentSha(deletionsFile)
                    /\ job \in deleteCalls]_vars
  /\ [][\A job \in Range(deletionsFile.content) \ Range(deletionsFile'.content) :
          \E s \in SweepTasks :
            /\ SweepWroteBack(s)
            /\ job \in Range(sw[s].dueForDeletion)
            /\ job \in deleteCalls]_vars
  /\ ReadingSweepAttemptsDue

\* the writeback of one sweep failed and the jobs it had issued delete calls for are
\* still in the queue; another sweep, which read that queue at a later reference
\* time, has issued delete calls for the same jobs again
C27_Witness ==
  \E s, t \in SweepTasks :
    /\ s # t
    /\ sw[s].pc = "done" /\ sw[s].result = "write_failed"
    /\ sw[s].dueForDeletion # <<>>
    /\ Range(sw[s].dueForDeletion) \subseteq Range(deletionsFile.content)
    /\ sw[t].pc = "deleting" /\ sw[t].now > sw[s].now
    /\ sw[t].seen = deletionsFile.content
    /\ Range(sw[s].dueForDeletion) \subseteq Range(sw[t].dueForDeletion)

-----------------------------------------------------------------------------
(* Properties of the record store *)

\* the rows appendToCSV writes for a list of records, one line each
RECURSIVE RowsText(_)
RowsText(records) ==
  IF records = <<>> THEN <<>>
  ELSE CsvRow(records[1].numId, records[1].fileId, records[1].fileName,
              records[1].fileType) \o <<"\n">> \o RowsText(Tail(records))

\* the record store file that holds exactly the given records
StoreOf(records) ==
  IF records = <<>> THEN AbsentFile
  ELSE FileOf(HeaderLine \o <<"\n">> \o RowsText(records))

\* the step in which upload u issues its PUT
PutStep(u) ==
  /\ up[u].pc \in {"create", "update"}
  /\ up'[u].pc \notin {"create", "update"}

\* the version token upload u obtained from its probe
HeldToken(u) == IF up[u].pc = "create" THEN NoSha ELSE up[u].sha

\* C5: when another append was accepted after upload u obtained its version token,
\* u's write, on reaching the store, fails with a conflict error and leaves the file
\* as it was: the records accepted before it and not u's record.
C5_SecondWriterConflicts ==
  [][\A u \in UploadTasks :
       (PutStep(u) /\ HeldToken(u) # CurrentSha(csvFile) /\ up'[u].status # "unavailable")
         => /\ up'[u].status = "conflict"
            /\ up'[u].pc = "catch"
            /\ appended' = appended
            /\ csvFile' = csvFile
            /\ csvFile' = StoreOf(appended)]_vars

\* one upload's write was accepted and the other's, overlapping it, was refused
C5_Witness ==
  \E u, v \in UploadTasks :
    /\ u # v
    /\ up[v].pc = "count"
    /\ up[u].pc = "done" /\ up[u].status = "conflict"
    /\ Len(appended) = 1
    /\ csvFile = StoreOf(appended)

\* C6: no two rows of the record store share the external file id, and no two share
\* the display name.
C6_NoDuplicateRows ==
  /\ csvFile = StoreOf(appended)
  /\ \A i, j \in 1..Len(appended) :
       i < j => /\ appended[i].fileId # appended[j].fileId
                /\ appended[i].fileName # appended[j].fileName

\* the probes of the duplicate check
ProbeNames == {<<"a">>, <<" ", "a">>, <<"b", ",", "\"">>, STR_Photo, STR_file_name}
ProbeIds == FileIds \cup {<<"f", "9">>}

\* C7: on a store built by appends, checkForDuplicate hits if and only if an appended
\* record has the probe's name or the probe's external id, and it returns the
\* earliest appended of these.
C7_DuplicateIffAppended ==
  \A fileName \in ProbeNames, fileId \in ProbeIds :
    LET existingFile == checkForDuplicate(getFileContent(csvFile, TRUE), fileName, fileId)
        colliding == {i \in 1..Len(appended) :
                        appended[i].fileName = fileName \/ appended[i].fileId = fileId}
    IN  /\ existingFile.hit <=> colliding # {}
        /\ existingFile.hit =>
             LET first == appended[Min(colliding)] IN
             /\ existingFile.numericalId = first.numId
             /\ existingFile.file_id = first.fileId
             /\ existingFile.file_name = first.fileName
             /\ existingFile.file_type = first.fileType

\* C8: after N accepted appends with pairwise distinct external ids and names,
\* starting from an absent file, getFileCount returns N.
C8_CountIsAppends ==
  (\A i, j \in 1..Len(appended) :
     i < j => /\ appended[i].fileId # appended[j].fileId
              /\ appended[i].fileName # appended[j].fileName)
    => getFileCount(getFileContent(csvFile, TRUE)) = Len(appended)

\* C9: findFileByIdStreaming of an appended record's id returns that record's
\* external id, name and type, and of an id never appended returns nothing.
C9_FindByIdRoundTrip ==
  LET content == getFileContent(csvFile, TRUE) IN
  /\ \A i \in 1..Len(appended) :
       LET fileData == findFileByIdStreaming(content, appended[i].numId) IN
       /\ fileData.found
       /\ fileData.file_id = appended[i].fileId
       /\ fileData.file_name = appended[i].fileName
       /\ fileData.file_type = appended[i].fileType
  /\ \A id \in GenIds :
       (\A i \in 1..Len(appended) : appended[i].numId # id)
         => ~findFileByIdStreaming(content, id).found

\* the step in which the create of upload u is accepted for an absent file
CreatedStep(u) ==
  /\ PutStep(u) /\ up[u].pc = "create"
  /\ ~csvFile.exists
  /\ up'[u].pc = "count"

\* C28: an append to an absent record store creates, with no version token, a file
\* of exactly two lines, the header row and the one data row; getFileCount on the
\* file then returns 1.
C28_CreateWritesHeaderAndOneRow ==
  [][\A u \in UploadTasks :
       CreatedStep(u) =>
         LET lines == SplitLines(csvFile'.content) IN
         /\ PutSha(u) = NoSha
         /\ Len(lines) = 3 /\ lines[3] = <<>>
         /\ lines[1] = HeaderLine
         /\ lines[2] = CsvRow(up[u].numId, up[u].fileId, up[u].fileName, up[u].fileType)
         /\ getFileCount(getFileContent(csvFile', TRUE)) = 1]_vars

\* the duplicate check of upload u, made on the store as it is now, finds a record
DuplicateHit(u, fetchOk) ==
  checkForDuplicate(getFileContent(csvFile, fetchOk), up[u].fileName, up[u].fileId)

RowOf(u) == CsvRow(up[u].numId, up[u].fileId, up[u].fileName, up[u].fileType) \o <<"\n">>

\* C22: the record store is append-only under every interleaving of uploads whose
\* reads and writes may fail. A step changes the file only by an accepted PUT of one
\* upload, and then the new content is the old content (the header line, when there
\* was no file) followed by exactly that upload's row: the rows that were there stay,
\* character for character and in their order. A PUT that fails changes nothing.
C22_StoreIsAppendOnly ==
  /\ [][csvFile' # csvFile =>
          \E u \in UploadTasks :
            /\ PutStep(u) /\ up'[u].pc = "count"
            /\ \A v \in UploadTasks \ {u} : up'[v] = up[v]
            /\ csvFile'.exists
            /\ csvFile'.content =
                 (IF csvFile.exists THEN csvFile.content ELSE HeaderLine \o <<"\n">>)
                   \o RowOf(u)
            /\ Len(appended') = Len(appended) + 1]_vars
  /\ [][\A u \in UploadTasks :
          (PutStep(u) /\ up'[u].pc # "count")
            => csvFile' = csvFile /\ appended' = appended]_vars
  /\ [](csvFile = StoreOf(appended))

\* two appends were accepted, the second after a refused one and after a failed
\* one, and the store holds the two rows in the order of their acceptance
C22_Witness ==
  \E u, v \in UploadTasks :
    /\ u # v
    /\ Len(appended) = 2
    /\ csvFile = StoreOf(appended)
    /\ up[u].pc = "count"
    /\ up[v].pc = "done" /\ up[v].status = "conflict"

-----------------------------------------------------------------------------
(* Properties of the webhook *)

\* C14: a write of an append or of a schedule that the store does not accept (its
\* version token is stale, or the store cannot be reached) changes nothing in the
\* store and throws to the handler's catch; the handler issues no further write
\* (from its catch, and after its one accepted write, it only ends), and it ends
\* with the error reply, never the success reply; when even the error reply cannot
\* be sent the webhook answers 500.
C14_FailedWriteNotRetried ==
  /\ [][\A u \in UploadTasks :
          (PutStep(u) /\ (HeldToken(u) # CurrentSha(csvFile) \/ up'[u].pc # "count"))
            => /\ csvFile' = csvFile /\ appended' = appended
               /\ up'[u].pc = "catch"
               /\ up'[u].status \in {"conflict", "unavailable"}]_vars
  /\ [][\A r \in RequestTasks :
          (SchedulePutStep(r) /\ (rq[r].sha # CurrentSha(deletionsFile)
                                    \/ rq'[r].reply # "scheduled"))
            => /\ deletionsFile' = deletionsFile
               /\ rq'[r].pc = "catch"]_vars
  /\ [][\A u \in UploadTasks :
          (up[u].pc \in {"count", "catch"} /\ up'[u] # up[u])
            => /\ up'[u].pc \in {"catch", "done"}
               /\ csvFile' = csvFile
               /\ up[u].pc = "catch"
                    => /\ up'[u].pc = "done"
                       /\ up'[u].reply = "error" \/ up'[u].response = "500"
                       /\ up'[u].reply \in {"error", "none"}]_vars
  /\ [][\A r \in RequestTasks :
          (rq[r].pc = "catch" /\ rq'[r] # rq[r])
            => /\ rq'[r].pc = "done"
               /\ deletionsFile' = deletionsFile
               /\ rq'[r].reply = "error" \/ rq'[r].response = "500"
               /\ rq'[r].reply \in {"error", "none"}]_vars
  /\ [][(csvFile' # csvFile => \E u \in UploadTasks : PutStep(u))
        /\ (deletionsFile' # deletionsFile
              => \E r \in RequestTasks : SchedulePutStep(r))]_vars

\* an append was refused for its stale version token and its handler replied with
\* the error; beside it a retrieval delivered its file, failed to write the schedule
\* and replied with the error; the record store holds the one accepted record and
\* the queue file was never created
C14_Witness ==
  \E u \in UploadTasks, r \in RequestTasks :
    /\ up[u].pc = "done" /\ up[u].status = "conflict" /\ up[u].reply = "error"
    /\ rq[r].pc = "done" /\ rq[r].reply = "error"
    /\ delivered # {}
    /\ Len(appended) = 1 /\ csvFile = StoreOf(appended)
    /\ deletionsFile = AbsentFile

\* the record retrieval r asked for is in the record store
RecordArchived(r) ==
  \E i \in 1..Len(appended) : appended[i].numId = rq[r].numId

\* C17: a retrieval enters the schedule exactly when it has delivered its file
\* message: it gets to the send only with a numeric id whose record is in the store,
\* from the send it goes on to the schedule if and only if the message was
\* delivered, and once there it reads the queue, pushes the job and issues the
\* write; the job it pushes holds the chat of the request, the id of the delivered
\* message and deleteAt = the clock at the push + the configured delay, and an
\* accepted write puts that job into the persisted queue.
C17_ScheduleIffDelivered ==
  /\ [][\A r \in RequestTasks :
          (rq[r].pc # "send" /\ rq'[r].pc = "send")
            => /\ rq[r].pc = "idle"
               /\ IsDigits(rq'[r].numId)
               /\ RecordArchived(r)'
               /\ rq'[r].chatId \in Chats]_vars
  /\ [][\A r \in RequestTasks :
          (rq[r].pc = "send" /\ rq'[r] # rq[r])
            => (rq'[r].pc = "load"
                  <=> (delivered' # delivered /\ rq'[r].messageId \in delivered'))]_vars
  /\ [][\A r \in RequestTasks :
          (rq[r].pc # "load" /\ rq'[r].pc = "load") => rq[r].pc = "send"]_vars
  /\ [][\A r \in RequestTasks :
          (rq[r].pc \in {"load", "push"} /\ rq'[r] # rq[r])
            => /\ rq'[r].pc = (IF rq[r].pc = "load" THEN "push" ELSE "put")
               /\ rq'[r].chatId = rq[r].chatId
               /\ rq'[r].messageId = rq[r].messageId]_vars
  /\ [][\A r \in RequestTasks :
          (rq[r].pc = "push" /\ rq'[r] # rq[r])
            => rq'[r].deletions =
                 Append(rq[r].deletions,
                        [chatId |-> rq[r].chatId, messageId |-> rq[r].messageId,
                         deleteAt |-> clock + DELETE_DELAY])]_vars
  /\ [][\A r \in RequestTasks :
          (SchedulePutStep(r) /\ rq'[r].reply = "scheduled")
            => /\ deletionsFile'.content = rq[r].deletions
               /\ rq[r].deletions[Len(rq[r].deletions)].messageId = rq[r].messageId]_vars
  /\ [][deletionsFile' # deletionsFile
          => \E r \in RequestTasks : SchedulePutStep(r)]_vars

\* a retrieval that pushed its job after the clock had advanced has scheduled it:
\* the queue holds the job for the delivered message, due at 1 + the delay; and a
\* retrieval whose file message was refused ended without scheduling
C17_Witness ==
  /\ \E r \in RequestTasks : rq[r].pc = "done" /\ rq[r].reply = "scheduled"
  /\ \E r \in RequestTasks : rq[r].pc = "done" /\ rq[r].reply = "not_sent"
  /\ \E job \in Range(deletionsFile.content) :
       /\ job.chatId \in Chats
       /\ job.messageId \in delivered
       /\ job.deleteAt = 1 + DELETE_DELAY
  /\ Len(deletionsFile.content) = Cardinality(delivered)

\* an update without a message, or whose message has no media and no text that
\* starts with one of the three commands
OtherShape(update) ==
  \/ ~update.message
  \/ /\ update.media = NoMedia
     /\ ~StartsWith(update.text, STR_start)
     /\ ~StartsWith(update.text, STR_get)
     /\ ~StartsWith(update.text, STR_debug)

\* C19: an update of any other shape is answered 200 at once, without a handler
\* being started: no notification is sent, no file message is delivered, and both
\* store files, the clock-independent state of every other invocation and the sweep
\* are left as they were.
C19_OtherUpdatesNoEffect ==
  [][\A w \in WebhookSlots, update \in BotUpdates :
       (OtherShape(update) /\ WebhookUpdate(w, update))
         => /\ rq'[w.r].pc = "done"
            /\ rq'[w.r].response = "200"
            /\ rq'[w.r].reply = "none"
            /\ \A r \in RequestTasks \ {w.r} : rq'[r] = rq[r]
            /\ UNCHANGED <<csvFile, appended, up, deletionsFile, delivered, nextMsg,
                           deleteCalls, sw>>]_vars

\* an update of another shape has been answered 200 while the other invocation is
\* in the middle of an append
C19_Witness ==
  \E w, v \in WebhookSlots :
    /\ rq[w.r].pc = "done" /\ rq[w.r].reply = "none" /\ rq[w.r].response = "200"
    /\ up[w.u].pc = "idle"
    /\ up[v.u].pc \in {"create", "update"}

\* each change of a store file is one accepted PUT carrying the whole content its
\* handler composed, and a step that takes a handler to its catch or to the 500
\* answer changes neither file
NoPartialState ==
  /\ csvFile' # csvFile
       => \E u \in UploadTasks :
            PutStep(u) /\ up'[u].pc = "count" /\ csvFile' = FileOf(up[u].content)
  /\ deletionsFile' # deletionsFile
       => \E r \in RequestTasks :
            /\ SchedulePutStep(r) /\ rq'[r].reply = "scheduled"
            /\ deletionsFile' = FileOf(rq[r].deletions)
  /\ (\/ \E u \in UploadTasks : up'[u] # up[u] /\ up'[u].pc = "catch"
      \/ \E u \in UploadTasks : up'[u] # up[u] /\ up'[u].response = "500"
      \/ \E r \in RequestTasks : rq'[r] # rq[r] /\ rq'[r].pc = "catch"
      \/ \E r \in RequestTasks : rq'[r] # rq[r] /\ rq'[r].response = "500")
       => csvFile' = csvFile /\ deletionsFile' = deletionsFile

\* C20 as stated: every handler in which an error was raised is answered 500, and
\* no failing handler leaves a store file partially written.
C20_EveryErrorAnswered500 ==
  [][/\ \A u \in UploadTasks :
          (up[u].pc = "catch" /\ up'[u] # up[u]) => up'[u].response = "500"
     /\ \A r \in RequestTasks :
          (rq[r].pc = "catch" /\ rq'[r] # rq[r]) => rq'[r].response = "500"
     /\ NoPartialState]_vars

\* C20: an error raised inside the try of a handler is caught there: the handler
\* sends the error reply and the webhook answers 200; the answer is 500 exactly when
\* the error escapes, that is when the error reply itself cannot be sent, a
\* notification outside a try cannot be sent, or the body is not JSON, and then no
\* reply was sent; and no failing handler leaves a store file partially written.
C20_EscapedErrorsAnswered500 ==
  [][/\ \A u \in UploadTasks :
          (up[u].pc = "catch" /\ up'[u] # up[u])
            => /\ up'[u].pc = "done"
               /\ \/ up'[u].reply = "error" /\ up'[u].response = "200"
                  \/ up'[u].reply = "none" /\ up'[u].response = "500"
     /\ \A r \in RequestTasks :
          (rq[r].pc = "catch" /\ rq'[r] # rq[r])
            => /\ rq'[r].pc = "done"
               /\ \/ rq'[r].reply = "error" /\ rq'[r].response = "200"
                  \/ rq'[r].reply = "none" /\ rq'[r].response = "500"
     /\ \A u \in UploadTasks :
          (up'[u] # up[u] /\ up'[u].pc = "done")
            => /\ up'[u].response \in {"200", "500"}
               /\ up'[u].response = "500" => up[u].pc = "catch" /\ up'[u].reply = "none"
     /\ \A r \in RequestTasks :
          (rq'[r] # rq[r] /\ rq'[r].pc = "done")
            => /\ rq'[r].response \in {"200", "500"}
               /\ rq'[r].response = "500"
                    => rq[r].pc \in {"catch", "idle"} /\ rq'[r].reply = "none"
     /\ NoPartialState]_vars

\* an append refused for its stale version token was reported to the user and
\* answered 200, an update in the other invocation was answered 500, and the
\* record store holds exactly the one accepted record
C20_Witness ==
  \E u \in UploadTasks, r \in RequestTasks :
    /\ up[u].pc = "done" /\ up[u].status = "conflict"
    /\ up[u].reply = "error" /\ up[u].response = "200"
    /\ rq[r].pc = "done" /\ rq[r].response = "500"
    /\ Len(appended) = 1 /\ csvFile = StoreOf(appended)

\* the numerical ids of the rows in the record store
StoredIds == {appended[i].numId : i \in 1..Len(appended)}

\* the step in which the retrieval in slot w reads the queue for its schedule
ScheduleLoadStep(w) == rq[w.r].pc = "load" /\ rq'[w.r].pc # "load"

\* what a retrieval of id that finds nothing leaves behind: the 'File not found'
\* message, the answer 200, and neither store file nor any message touched
ReportsNotFound(w, id) ==
  /\ rq'[w.r] = [RequestDone("not_found") EXCEPT !.numId = id]
  /\ UNCHANGED <<csvFile, appended, deletionsFile, delivered, nextMsg, up>>

\* C21: read failures never raise. getDeletions on an absent queue file hands the
\* schedule an empty list and no version token and the handler goes on to its push;
\* a retrieval of a numeric id whose read of the record store fails, or whose record
\* store is absent, reports 'not found' and answers 200, exactly as the retrieval of
\* an id that no row of a readable store carries.
C21_ReadFailuresReportNotFound ==
  /\ [][\A w \in WebhookSlots :
          ScheduleLoadStep(w)
            => /\ rq'[w.r].pc = "push"
               /\ ~deletionsFile.exists
                    => rq'[w.r].deletions = <<>> /\ rq'[w.r].sha = NoSha]_vars
  /\ [][\A w \in WebhookSlots, update \in BotUpdates, chatId \in Chats :
          LET id == NumericalFileIdOf(update.text) IN
          (rq[w.r].pc = "idle" /\ rq'[w.r].pc # "idle" /\ IsDigits(id)) =>
            /\ WebhookRequest(w, chatId, update, FALSE, TRUE)
                 => ReportsNotFound(w, id)
            /\ (~csvFile.exists /\ WebhookRequest(w, chatId, update, TRUE, TRUE))
                 => ReportsNotFound(w, id)
            /\ (csvFile.exists /\ id \notin StoredIds
                   /\ WebhookRequest(w, chatId, update, TRUE, TRUE))
                 => ReportsNotFound(w, id)]_vars

\* one retrieval of a stored id has reported 'not found', its read of the record
\* store having failed, while another has taken the empty list and no token from the
\* absent queue file
C21_Witness ==
  \E w, v \in WebhookSlots :
    /\ rq[w.r].pc = "done" /\ rq[w.r].reply = "not_found" /\ rq[w.r].response = "200"
    /\ csvFile.exists /\ rq[w.r].numId \in StoredIds
    /\ rq[v.r].pc = "push" /\ rq[v.r].deletions = <<>> /\ rq[v.r].sha = NoSha
    /\ ~deletionsFile.exists

-----------------------------------------------------------------------------
(* Properties of the handlers on a repository that holds both files *)

\* s is the beginning of t
IsPrefix(s, t) == Len(s) <= Len(t) /\ SubSeq(t, 1, Len(s)) = s

\* C25: a schedule whose read of the existing queue file fails gets the empty list
\* and no version token from getDeletions; its write, carrying no token, is refused
\* by the store with a conflict, the handler goes to its catch, and the file keeps
\* the jobs it held. No step shortens the queue.
C25_FailedReadCannotOverwriteQueue ==
  /\ [](deletionsFile.exists /\ QueuedJob \in Range(deletionsFile.content))
  /\ [][\A w \in LiveSlots :
          RequestLoad(w.r, FALSE)
            => rq'[w.r].deletions = <<>> /\ rq'[w.r].sha = NoSha]_vars
  /\ [][\A w \in LiveSlots :
          (SchedulePutStep(w.r) /\ rq[w.r].sha = NoSha)
            => /\ rq'[w.r].pc = "catch"
               /\ rq'[w.r].status \in {"conflict", "unavailable"}
               /\ deletionsFile' = deletionsFile]_vars
  /\ [][IsPrefix(deletionsFile.content, deletionsFile'.content)]_vars

\* the token-less write of a schedule that had read nothing reached the store and
\* was refused; the queue holds the jobs persisted before it
C25_Witness ==
  \E w \in LiveSlots :
    /\ rq[w.r].pc = "catch" /\ rq[w.r].status = "conflict"
    /\ delivered # {}
    /\ QueuedJob \in Range(deletionsFile.content)
    /\ \A job \in Range(deletionsFile.content) : job.messageId # Max(delivered)

\* C26: an append whose probe of the existing record store fails takes the file for
\* absent and goes on to create the two-line file; its PUT, carrying no token, is
\* refused by the store with a conflict, the handler goes to its catch, and the file
\* keeps every record it held. No step removes or alters what the file contains.
C26_FailedProbeCannotReplaceStore ==
  /\ [](csvFile.exists /\ IsPrefix(ArchivedStore.content, csvFile.content))
  /\ [][\A w \in LiveSlots :
          UploadInfo(w.u, FALSE)
            => /\ up'[w.u].pc = "create"
               /\ up'[w.u].content = NewFileContent(up[w.u].numId, up[w.u].fileId,
                                                     up[w.u].fileName, up[w.u].fileType)
               /\ Len(SplitLines(TrimEnd(up'[w.u].content))) >= 2]_vars
  /\ [][\A w \in LiveSlots :
          (PutStep(w.u) /\ up[w.u].pc = "create")
            => /\ up'[w.u].pc = "catch"
               /\ up'[w.u].status \in {"conflict", "unavailable"}
               /\ csvFile' = csvFile
               /\ appended' = appended]_vars
  /\ [][IsPrefix(csvFile.content, csvFile'.content)]_vars

\* the token-less create of an append that had taken the store for absent reached
\* the store and was refused; the store holds the records it held before
C26_Witness ==
  \E w \in LiveSlots :
    /\ up[w.u].pc = "catch" /\ up[w.u].status = "conflict"
    /\ appended = <<>>
    /\ csvFile = ArchivedStore

-----------------------------------------------------------------------------
(* Properties of the dispatch of handleTelegramWebhook *)

\* the text of the update starts with the start or the get command
IsRetrieval(update) ==
  StartsWith(update.text, STR_start) \/ StartsWith(update.text, STR_get)

\* C32: a message carrying a document, photo or video is always handled as an
\* upload, even if it also has command text; a text starting with the start or
\* get command is handled as a retrieval, and when the token after the command is
\* missing or not all decimal digits the retrieval ends at once whatever the store
\* would answer: it reads neither store file, sends no file and schedules no
\* deletion.
C32_WebhookDispatch ==
  [][\A w \in LiveSlots, update \in DispatchUpdates :
       (SlotFree(w) /\ update.message /\ WebhookUpdate(w, update)) =>
         /\ update.media # NoMedia =>
              LET f == UploadFields(update.media) IN
              /\ up'[w.u] = [IdleUpload EXCEPT !.pc = "check", !.fileId = f.fileId,
                                               !.fileName = f.fileName,
                                               !.fileType = f.fileType]
              /\ rq' = rq
         /\ (update.media = NoMedia /\ IsRetrieval(update)) =>
              LET token == NumericalFileIdOf(update.text)
                  command == IF StartsWith(update.text, STR_start) THEN "/start" ELSE "/get"
              IN
              /\ up' = up
              /\ rq'[w.r].pc # "idle"
              /\ \E chatId \in Chats, fetchOk \in BOOLEAN, sendOk \in BOOLEAN :
                   RequestStart(w.r, chatId, command, token, fetchOk, sendOk)
              /\ ~IsDigits(token) =>
                   /\ rq'[w.r].pc = "done"
                   /\ \/ rq'[w.r].response = "200" /\
                         rq'[w.r].reply = IF command = "/start" THEN "welcome" ELSE "invalid"
                      \/ rq'[w.r].response = "500" /\ rq'[w.r].reply = "none"
                   /\ \A fetchOk \in BOOLEAN :
                        \E chatId \in Chats, sendOk \in BOOLEAN :
                          RequestStart(w.r, chatId, command, token, fetchOk, sendOk)
                   /\ UNCHANGED <<csvFile, appended, deletionsFile, delivered,
                                  nextMsg, deleteCalls>>
    ]_vars

\* the photo sent with a get command has been archived, and a get command without
\* a usable id has been answered with nothing sent and nothing scheduled
C32_Witness ==
  /\ \E i \in 1..Len(appended) :
       appended[i].fileId = <<"f", "2">> /\ appended[i].fileType = STR_Photo
  /\ rq["r1"].pc = "done" /\ rq["r1"].reply = "invalid"
  /\ ~deletionsFile.exists
  /\ delivered = {}

-----------------------------------------------------------------------------
(* Properties of the lookup and the count on one record store file *)

\* the lines of the scanned content, and those of them that are not blank
ScannedLines == SplitLines(rd.content.text)
NonBlank == {i \in 1..Len(ScannedLines) : Trim(ScannedLines[i]) # <<>>}
\* the lines the lookup examines as data rows
Examined ==
  LET rows == scanLoop(ScannedLines, 1, FALSE) IN {rows[k] : k \in 1..Len(rows)}
\* line i is a record whose first field is the requested id
IsRecordOf(i, id) ==
  LET parsedLine == parseCSVLine(Trim(ScannedLines[i]))
  IN  Len(parsedLine) >= 4 /\ parsedLine[1] = id

\* C29: findFileByIdStreaming skips at most one line as a header, and only the
\* first non-empty line can be skipped: every non-blank line after the first
\* non-empty line is examined as a data row, so a record whose first field is the
\* requested id is found wherever it stands after the first line.
C29_OnlyFirstLineSkippedAsHeader ==
  (rd.pc = "found" /\ rd.content.ok) =>
    /\ Cardinality(NonBlank \ Examined) <= 1
    /\ \A i \in NonBlank \ Examined : i = Min(NonBlank)
    /\ (\E i \in NonBlank : i > Min(NonBlank) /\ IsRecordOf(i, rd.id))
         => rd.fileData.found

\* C30: getFileCount and findFileByIdStreaming agree on what a header is: for
\* every content of the record store, getFileCount is the number of non-blank
\* lines the lookup treats as data rows, and getFileCount is never negative.
C30_CountIsNumberOfDataRows ==
  rd.pc = "counted" =>
    /\ rd.count >= 0
    /\ rd.content.ok => rd.count = Cardinality(Examined)

-----------------------------------------------------------------------------
(* Properties of the large-file read *)

\* C18: getFileContent on a file whose reported size is above GITHUB_SIZE_LIMIT
\* returns, when it returns a text, the decoded content of the blob endpoint and not
\* that of the path endpoint (which carries none for such a file), and the text is
\* the one the path-based read returns for a file of the same bytes below the limit.
C18_LargeFileReadViaBlob ==
  (rd.pc = "done" /\ csvFile.size > GITHUB_SIZE_LIMIT /\ rd.content.ok)
    => /\ rd.content.via = "blob"
       /\ rd.content.text = atob(BlobEndpoint(csvFile, ShaOf(csvFile.content)).content)
       /\ rd.content.text # atob(PathEndpoint(csvFile).content)
       /\ LET small == getFileContent(FileOf(csvFile.content), TRUE)
          IN  small.via = "path" /\ rd.content.text = small.text

\* the record store of two records, reported one byte above the limit, has been read
C18_Witness ==
  /\ rd.pc = "done" /\ rd.content.ok
  /\ csvFile.size = GITHUB_SIZE_LIMIT + 1
  /\ rd.content.via = "blob"
  /\ rd.content.text = csvFile.content
  /\ Len(SplitLines(rd.content.text)) = 3

-----------------------------------------------------------------------------
(* Properties of the CSV writer and parser *)

HasCommaAndQuote(name) ==
  /\ \E i \in 1..Len(name) : name[i] = ","
  /\ \E i \in 1..Len(name) : name[i] = "\""

\* C10: a display name with a ',' and a '"' comes back unchanged as the third of
\* exactly four fields when parseCSVLine reads the row written with escapeCSV.
C10_NameSurvivesCycle ==
  (csv.pc = "read" /\ HasCommaAndQuote(csv.name))
    => /\ Len(csv.fields) = 4
       /\ csv.fields[3] = csv.name

\* C10, as the code has it: the third of exactly four fields is the name without its
\* surrounding white space, which parseCSVLine trims from every field.
C10_NameSurvivesCycleTrimmed ==
  (csv.pc = "read" /\ HasCommaAndQuote(csv.name))
    => /\ Len(csv.fields) = 4
       /\ csv.fields[3] = Trim(csv.name)

\* a row was read whose name has a ',', a '"' and white space at its start
C10_Witness ==
  /\ csv.pc = "read"
  /\ HasCommaAndQuote(csv.name)
  /\ IsSpace(csv.name[1])
  /\ csv.fields[3] # csv.name
  /\ csv.fields[3] = Trim(csv.name)

====
